---- MODULE Spec2Model ----
(***************************************************************************)
(* A model of the command-tree core of cobra: the flag-group validator of  *)
(* flag_groups.go and the resolvers Find and Traverse of command.go.       *)
(*                                                                         *)
(* Strings are modelled as sequences of one-character strings, so that     *)
(* strings.HasPrefix, strings.Contains, strings.Join, strings.Split and    *)
(* the slicing s[2:] are computed and not assumed.                         *)
(***************************************************************************)
EXTENDS Integers, Sequences, FiniteSets, TLC

\* ------------------------------------------------------------------ bounds
\* The number of Mark* declarations of one run.
MaxMarks == 2
\* The longest argument vector handed to Find and Traverse.
MaxArgs == 3
\* The most entries the children lists hold together.
MaxChildren == 3

VARIABLES
  \* ---- flag groups (flag_groups.go)
  cmdFlags,            \* the names in c.Flags() of the command "parent"
  CommandLine,         \* the names in the package-level flag set flag.CommandLine
  Changed,             \* the flags whose Changed marker is set
  Annotations,         \* Annotations[annotation][name]: the list of group signatures
  DisableFlagParsing,  \* Command.DisableFlagParsing, per command
  nmarks,              \* how many Mark* calls were made
  panicked,            \* a Mark* call has panicked: the process is gone
  validated,           \* the command ValidateFlagGroups last ran on, or "none"
  verr,                \* what that call returned
  \* ---- resolver (command.go)
  commands,            \* commands[c]: the ordered children of c
  EnablePrefixMatching,\* the package variable
  args,                \* Command.args of the root: Nil, or what SetArgs stored
  argv,                \* the argument vector handed to Find or Traverse
  calledAs,            \* calledAs[c]: commandCalledAs.name of c
  SuggestionsMinimumDistance, \* of the root
  pc,                  \* "config", "ready" (the arguments are given), "done"
  res,                 \* what Find, Traverse or ExecuteC returned
  \* ---- execution (command.go)
  TraverseChildren,    \* Command.TraverseChildren of the root
  flagErrorFunc,       \* flagErrorFunc[c]: SetFlagErrorFunc was called on c
  \* ---- suggestions (command.go)
  Hidden,              \* the commands with Hidden set
  Deprecated,          \* the commands with a Deprecated text
  Runnable,            \* the commands with Run or RunE set
  helpCommand,         \* Command.helpCommand of the root, or Nil
  DisableSuggestions,  \* Command.DisableSuggestions of the root
  \* ---- tree edits (command.go)
  parent,              \* parent[c]: Command.parent of c, or Nil
  crashed,             \* the process died of a stack overflow
  \* ---- flag completion registry (completions.go)
  flagCompletionFunctions, \* the package map: flag -> the function stored, or None
  flagCompletionMutex,     \* the RWMutex: the goroutine writing, the goroutines reading
  goroutines,              \* per goroutine: its call, where it stands, what it returned
  \* ---- completion directives (completions.go)
  directive,               \* a ShellCompDirective value
  directiveString,         \* what directive.string() returned for it
  \* ---- the __complete command (completions.go)
  helpFlagBool,            \* "help" is the bool flag InitDefaultHelpFlag declares
  environ,                 \* the variables of the environment GetActiveHelpConfig reads
  descriptionsEnv,         \* the value of the descriptions variable of the environment
  validArgsFunction,       \* what the completion function of the program returns
  stdout,                  \* the lines written to standard output
  stderr,                  \* the diagnostics written to standard error
  \* ---- flag groups at completion time (flag_groups.go)
  required,                \* the flags that carry the required annotation
  hiddenFlags,             \* the flags whose Hidden field is set
  enforced,                \* the command enforceFlagGroupsForCompletion ran on
  \* ---- flag views (command.go)
  cflags,                  \* c.flags of every command: the flag objects it holds
  pflags,                  \* c.pflags, the persistent flags declared on the command
  lflags,                  \* c.lflags, the cache LocalFlags returns
  iflags,                  \* c.iflags, the cache InheritedFlags returns
  parentsPflags,           \* c.parentsPflags, the persistent flags of the parents
  flagPanic,               \* AddFlag found the name in the set and panicked
  viewCalls,               \* per command and view: the calls since a flag was
                           \* registered on it or above it, and what the first returned
  \* ---- run hooks and positional arguments (command.go, args.go)
  hooks,                   \* hooks[c][stage]: the plain form, the E form are set
  failing,                 \* the <<command, stage>> whose E form returns an error
  EnableTraverseRunHooks,  \* the package variable
  Args,                    \* Command.Args of the commands: a validator, or nil
  Version,                 \* Command.Version of the commands
  resolvedCmd,             \* the command ExecuteC resolved and executed, or Nil
  invoked,                 \* the hooks invoked, in order
  helpShown,               \* ExecuteC called the help function
  execErr                  \* the error ExecuteC, or the validator, returned

groupVars == <<cmdFlags, CommandLine, Annotations, DisableFlagParsing,
               nmarks, panicked, validated, verr>>

findVars == <<commands, EnablePrefixMatching, args, argv,
              calledAs, SuggestionsMinimumDistance, pc, res>>

execVars == <<TraverseChildren, flagErrorFunc>>

\* the variables of the parts of the program added after the resolver
sugVars == <<Hidden, Deprecated, Runnable, helpCommand, DisableSuggestions>>

treeVars == <<parent, crashed>>

regVars == <<flagCompletionFunctions, flagCompletionMutex, goroutines>>

dirVars == <<directive, directiveString>>

runVars == <<helpFlagBool, environ, descriptionsEnv, validArgsFunction, stdout, stderr>>

enfVars == <<required, hiddenFlags, enforced>>

viewVars == <<cflags, pflags, lflags, iflags, parentsPflags, flagPanic, viewCalls>>

hookVars == <<hooks, failing, EnableTraverseRunHooks, Args, Version, resolvedCmd, invoked,
              helpShown, execErr>>

compVars == <<regVars, dirVars, runVars, enfVars, viewVars, hookVars>>

otherVars == <<execVars, sugVars, treeVars, compVars>>

vars == <<groupVars, Changed, findVars, otherVars>>

\* ------------------------------------------------------------ strings
\* byte order of the characters that occur ('' ' < '-' < '=' < letters)
CharOrder == <<" ", "-", "=", "a", "b", "c", "d", "e", "h", "i", "l", "m",
               "n", "o", "r", "s", "t", "u", "v", "x">>

Ord(ch) == CHOOSE i \in 1..Len(CharOrder) : CharOrder[i] = ch

\* s < t in Go's string order
RECURSIVE StrLess(_, _)
StrLess(s, t) ==
  IF t = <<>> THEN FALSE
  ELSE IF s = <<>> THEN TRUE
  ELSE IF Head(s) # Head(t) THEN Ord(Head(s)) < Ord(Head(t))
  ELSE StrLess(Tail(s), Tail(t))

\* sort.Strings on a set of strings without duplicates
RECURSIVE SortStrings(_)
SortStrings(S) ==
  IF S = {} THEN <<>>
  ELSE LET m == CHOOSE x \in S : \A y \in S : y = x \/ StrLess(x, y)
       IN <<m>> \o SortStrings(S \ {m})

HasPrefix(s, p) == Len(p) <= Len(s) /\ SubSeq(s, 1, Len(p)) = p

Contains(s, ch) == \E i \in 1..Len(s) : s[i] = ch

\* strings.Join(names, " ")
RECURSIVE Join(_)
Join(names) ==
  IF names = <<>> THEN <<>>
  ELSE IF Len(names) = 1 THEN Head(names)
  ELSE Head(names) \o <<" ">> \o Join(Tail(names))

\* strings.Split(s, " "): the fields between the separators, empty fields kept
RECURSIVE SplitFrom(_, _)
SplitFrom(s, field) ==
  IF s = <<>> THEN <<field>>
  ELSE IF Head(s) = " " THEN <<field>> \o SplitFrom(Tail(s), <<>>)
  ELSE SplitFrom(Tail(s), Append(field, Head(s)))

Split(s) == SplitFrom(s, <<>>)

Range(f) == {f[i] : i \in DOMAIN f}

\* ------------------------------------------------------------ flag groups
requiredAsGroupAnnotation == "cobra_annotation_required_if_others_set"
oneRequiredAnnotation == "cobra_annotation_one_required"
mutuallyExclusiveAnnotation == "cobra_annotation_mutually_exclusive"

GroupAnnotations ==
  {requiredAsGroupAnnotation, oneRequiredAnnotation, mutuallyExclusiveAnnotation}

\* The flag objects of the program, by name.  The command "child" holds all
\* of them; the command "parent" holds those in cmdFlags (a flag object may
\* be registered in several flag sets, which then share its annotations and
\* its Changed marker).
FlagNames == {<<"a">>, <<"b">>, <<"c">>}

GroupCmds == {"parent", "child"}

\* The flags of the commands of the resolver's tree: the root declares the
\* persistent flags --name/-n (a string: it takes a value) and --all/-a (a
\* bool: its no-value default is "true"), which every command's merged flag
\* set holds.
fName == <<"n", "a", "m", "e">>
fAll == <<"a", "l", "l">>

TreeFlagNames == {fName, fAll}

Shorthand(f) == IF f = fName THEN "n" ELSE IF f = fAll THEN "a" ELSE ""

NoOptDefVal(f) == IF f = fAll THEN "true" ELSE ""

\* c.Flags() as the set of names Lookup finds
Flags(c) ==
  IF c = "child" THEN FlagNames
  ELSE IF c = "parent" THEN cmdFlags
  ELSE TreeFlagNames

\* the argument lists given to the Mark* functions
MarkArgs ==
  { <<<<"a">>, <<"b">>>>, <<<<"b">>, <<"a">>>>,
    <<<<"b">>, <<"c">>>>, <<<<"a">>, <<"b">>, <<"c">>>> }

NoErr == [kind |-> "nil", group |-> <<>>, flags |-> <<>>]

hasAllFlags(fs, flagnames) ==
  \A i \in 1..Len(flagnames) : flagnames[i] \in fs

\* a group materialised with its first member alone, the others joining it
\* as they are visited
processGroupFirstMember(flags, pflag, group, groupStatus) ==
  LET flagnames == Split(group)
      known == group \in DOMAIN groupStatus
  IN IF ~known /\ ~hasAllFlags(flags, flagnames)
     THEN groupStatus
     ELSE LET old == IF known THEN groupStatus[group]
                     ELSE [n \in {Head(flagnames)} |-> FALSE]
              new == [n \in DOMAIN old \cup {pflag} |->
                        IF n = pflag THEN pflag \in Changed ELSE old[n]]
          IN [g \in DOMAIN groupStatus \cup {group} |->
                IF g = group THEN new ELSE groupStatus[g]]

\* One group of the annotation list of pflag: materialise the group when all
\* its flags are in the flag set, then record pflag's Changed marker.
processGroup(flags, pflag, group, groupStatus) ==
  LET flagnames == Split(group)
      known == group \in DOMAIN groupStatus
  IN IF ~known /\ ~hasAllFlags(flags, flagnames)
     THEN groupStatus
     ELSE LET old == IF known THEN groupStatus[group]
                     ELSE [n \in Range(flagnames) |-> FALSE]
              new == [n \in DOMAIN old \cup {pflag} |->
                        IF n = pflag THEN pflag \in Changed ELSE old[n]]
          IN [g \in DOMAIN groupStatus \cup {group} |->
                IF g = group THEN new ELSE groupStatus[g]]

RECURSIVE processGroupInfo(_, _, _, _)
processGroupInfo(flags, pflag, groupInfo, groupStatus) ==
  IF groupInfo = <<>> THEN groupStatus
  ELSE processGroupInfo(flags, pflag, Tail(groupInfo),
                        processGroup(flags, pflag, Head(groupInfo), groupStatus))

\* processFlagGroupAnnotation on a flag whose Annotations are ann[.][pflag]
processFlagGroupAnnotationOf(ann, flags, pflag, annotation, groupStatus) ==
  processGroupInfo(flags, pflag, ann[annotation][pflag], groupStatus)

processFlagGroupAnnotation(flags, pflag, annotation, groupStatus) ==
  processFlagGroupAnnotationOf(Annotations, flags, pflag, annotation, groupStatus)

\* VisitAll over the flags in `visited`, in name order, for one annotation
RECURSIVE visitAllOf(_, _, _, _, _)
visitAllOf(ann, flags, visited, annotation, groupStatus) ==
  IF visited = <<>> THEN groupStatus
  ELSE visitAllOf(ann, flags, Tail(visited), annotation,
                  processFlagGroupAnnotationOf(ann, flags, Head(visited), annotation,
                                               groupStatus))

visitAll(flags, visited, annotation, groupStatus) ==
  visitAllOf(Annotations, flags, visited, annotation, groupStatus)

EmptyStatus == [g \in {} |-> [n \in {} |-> FALSE]]

unsetOf(status) == {n \in DOMAIN status : ~status[n]}
setOf(status) == {n \in DOMAIN status : status[n]}

RECURSIVE requireLoop(_, _)
requireLoop(keys, data) ==
  IF keys = <<>> THEN NoErr
  ELSE LET flagnameAndStatus == data[Head(keys)]
           unset == unsetOf(flagnameAndStatus)
       IN IF Cardinality(unset) = Cardinality(DOMAIN flagnameAndStatus)
             \/ Cardinality(unset) = 0
          THEN requireLoop(Tail(keys), data)
          ELSE [kind |-> "required", group |-> Head(keys),
                flags |-> SortStrings(unset)]

sortedKeys(m) == SortStrings(DOMAIN m)

validateRequireFlagGroups(data) == requireLoop(sortedKeys(data), data)

RECURSIVE oneRequiredLoop(_, _)
oneRequiredLoop(keys, data) ==
  IF keys = <<>> THEN NoErr
  ELSE IF Cardinality(setOf(data[Head(keys)])) >= 1
       THEN oneRequiredLoop(Tail(keys), data)
       ELSE [kind |-> "oneRequired", group |-> Head(keys), flags |-> <<>>]

validateOneRequiredFlagGroups(data) == oneRequiredLoop(sortedKeys(data), data)

RECURSIVE exclusiveLoop(_, _)
exclusiveLoop(keys, data) ==
  IF keys = <<>> THEN NoErr
  ELSE LET set == setOf(data[Head(keys)])
       IN IF Cardinality(set) = 0 \/ Cardinality(set) = 1
          THEN exclusiveLoop(Tail(keys), data)
          ELSE [kind |-> "exclusive", group |-> Head(keys),
                flags |-> SortStrings(set)]

validateExclusiveFlagGroups(data) == exclusiveLoop(sortedKeys(data), data)

\* The flags ValidateFlagGroups visits.  The source calls flag.VisitAll, the
\* package-level function, which walks flag.CommandLine; the command's own
\* set is only the `flags` handed to hasAllFlags.
ValidateVisited(c) == SortStrings(CommandLine)

\* ValidateFlagGroups on c when the flags carry the annotations ann
validateFlagGroupsOf(ann, c) ==
  IF DisableFlagParsing[c] THEN NoErr
  ELSE
    LET flags == Flags(c)
        visited == ValidateVisited(c)
        groupStatus == visitAllOf(ann, flags, visited, requiredAsGroupAnnotation, EmptyStatus)
        oneRequiredGroupStatus == visitAllOf(ann, flags, visited, oneRequiredAnnotation, EmptyStatus)
        mutuallyExclusiveGroupStatus ==
          visitAllOf(ann, flags, visited, mutuallyExclusiveAnnotation, EmptyStatus)
        e1 == validateRequireFlagGroups(groupStatus)
        e2 == validateOneRequiredFlagGroups(oneRequiredGroupStatus)
        e3 == validateExclusiveFlagGroups(mutuallyExclusiveGroupStatus)
    IN IF e1 # NoErr THEN e1
       ELSE IF e2 # NoErr THEN e2
       ELSE IF e3 # NoErr THEN e3
       ELSE NoErr

ValidateFlagGroups(c) == validateFlagGroupsOf(Annotations, c)

\* a loop that passes over a name Lookup does not find
RECURSIVE markLoopSkipping(_, _, _, _, _)
markLoopSkipping(flags, annotation, todo, sig, ann) ==
  IF todo = <<>> THEN [ann |-> ann, panic |-> FALSE]
  ELSE IF Head(todo) \notin flags
  THEN markLoopSkipping(flags, annotation, Tail(todo), sig, ann)
  ELSE markLoopSkipping(flags, annotation, Tail(todo), sig,
                        [ann EXCEPT ![annotation][Head(todo)] = Append(@, sig)])

\* The loop of a Mark* function: every name before the first one Lookup does
\* not find gets the signature appended; the first name not found panics.
RECURSIVE markLoop(_, _, _, _, _)
markLoop(flags, annotation, todo, sig, ann) ==
  IF todo = <<>> THEN [ann |-> ann, panic |-> FALSE]
  ELSE IF Head(todo) \notin flags THEN [ann |-> ann, panic |-> TRUE]
  ELSE markLoop(flags, annotation, Tail(todo), sig,
                [ann EXCEPT ![annotation][Head(todo)] = Append(@, sig)])

MarkFlags(c, annotation, flagNames) ==
  LET r == markLoop(Flags(c), annotation, flagNames, Join(flagNames), Annotations)
  IN /\ ~panicked
     /\ nmarks < MaxMarks
     /\ nmarks' = nmarks + 1
     /\ Annotations' = r.ann
     /\ panicked' = r.panic
     /\ validated' = "none"
     /\ verr' = NoErr
     /\ UNCHANGED <<cmdFlags, CommandLine, Changed, DisableFlagParsing>>
     /\ UNCHANGED <<findVars, otherVars>>

MarkFlagsRequiredTogether(c, flagNames) ==
  MarkFlags(c, requiredAsGroupAnnotation, flagNames)

MarkFlagsOneRequired(c, flagNames) ==
  MarkFlags(c, oneRequiredAnnotation, flagNames)

MarkFlagsMutuallyExclusive(c, flagNames) ==
  MarkFlags(c, mutuallyExclusiveAnnotation, flagNames)

\* c.Flags().AddFlag(f) on the parent, f a flag object of the program
AddFlag(n) ==
  /\ ~panicked
  /\ n \notin cmdFlags
  /\ cmdFlags' = cmdFlags \cup {n}
  /\ validated' = "none"
  /\ verr' = NoErr
  /\ UNCHANGED <<CommandLine, Changed, Annotations, DisableFlagParsing, nmarks, panicked>>
  /\ UNCHANGED <<findVars, otherVars>>

\* flag.CommandLine.AddFlag(f): the flag object is also a process-wide flag
CommandLineAddFlag(n) ==
  /\ ~panicked
  /\ n \notin CommandLine
  /\ CommandLine' = CommandLine \cup {n}
  /\ validated' = "none"
  /\ verr' = NoErr
  /\ UNCHANGED <<cmdFlags, Changed, Annotations, DisableFlagParsing, nmarks, panicked>>
  /\ UNCHANGED <<findVars, otherVars>>

\* the flag is given on the command line: the parse sets its Changed marker
SetFlag(n) ==
  /\ ~panicked
  /\ n \notin Changed
  /\ Changed' = Changed \cup {n}
  /\ validated' = "none"
  /\ verr' = NoErr
  /\ UNCHANGED <<cmdFlags, CommandLine, Annotations, DisableFlagParsing, nmarks, panicked>>
  /\ UNCHANGED <<findVars, otherVars>>

Validate(c) ==
  /\ ~panicked
  /\ validated' = c
  /\ verr' = ValidateFlagGroups(c)
  /\ UNCHANGED <<cmdFlags, CommandLine, Changed, Annotations, DisableFlagParsing,
                 nmarks, panicked>>
  /\ UNCHANGED <<findVars, otherVars>>


\* ---------------------------------------------------------------- resolver
Nil == "nil"

ShellCompRequestCmd == <<"_", "_", "c", "o", "m", "p", "l", "e", "t", "e">>
ShellCompNoDescRequestCmd == ShellCompRequestCmd \o <<"N", "o", "D", "e", "s", "c">>

\* the command initCompletionCmd builds
completeCmd == "__complete"

\* the commands of the tree and their Use lines
Cmds == {"root", "status", "start", "build", "info", "sub", "list", "ls", "Log",
         completeCmd}

Use(c) ==
  CASE c = "root" -> <<"a", "p", "p">>
    [] c = "status" -> <<"s", "t", "a", "t", "u", "s", " ", "x">>
    [] c = "start" -> <<"s", "t", "a", "r", "t">>
    [] c = "build" -> <<"b", "u", "i", "l", "d">>
    [] c = "info" -> <<"i", "n", "f", "o">>
    [] c = "sub" -> <<"s", "t", "a", "t", "u", "s">>
    [] c = "list" -> <<"l", "i", "s", "t">>
    [] c = "ls" -> <<"l", "s">>
    [] c = "Log" -> <<"L", "o", "g", " ", "x">>
    [] c = completeCmd -> ShellCompRequestCmd \o <<" ", "[", "c", "o", "m", "m", "a", "n", "d",
                                                   "-", "l", "i", "n", "e", "]">>

Aliases(c) ==
  IF c = "info" THEN << <<"s", "t", "a">>, <<"s", "t", "a", "t">> >>
  ELSE IF c = "build" THEN << <<"s", "t", "a", "b">> >>
  ELSE IF c = completeCmd THEN <<ShellCompNoDescRequestCmd>>
  ELSE <<>>

\* the trees of the model: the children of the root and of status, in order
Trees ==
  { [c \in Cmds |-> IF c = "root" THEN <<"status", "start">>
                    ELSE IF c = "status" THEN <<"sub">> ELSE <<>>],
    [c \in Cmds |-> IF c = "root" THEN <<"status", "build">> ELSE <<>>],
    [c \in Cmds |-> IF c = "root" THEN <<"status", "start", "info">>
                    ELSE IF c = "status" THEN <<"sub">> ELSE <<>>],
    [c \in Cmds |-> IF c = "root" THEN <<"info", "status", "start">> ELSE <<>>],
    [c \in Cmds |-> <<>>] }

\* the tokens of an argument vector
tSta == <<"s", "t", "a">>
tStat == <<"s", "t", "a", "t">>
tStatus == <<"s", "t", "a", "t", "u", "s">>
tX == <<"x">>
tAll == <<"-", "-", "a", "l", "l">>
tA == <<"-", "a">>
tName == <<"-", "-", "n", "a", "m", "e">>
tN == <<"-", "n">>
tNameEq == <<"-", "-", "n", "a", "m", "e", "=", "x">>
tDashDash == <<"-", "-">>
tEmpty == <<>>

Tokens == {tSta, tStat, tStatus, tX, tAll, tA, tName, tN, tNameEq, tDashDash, tEmpty}

ArgVectors == UNION {[1..n -> Tokens] : n \in 0..MaxArgs}

\* s[n:] of Go, n counted from 0
From(s, n) == SubSeq(s, n + 1, Len(s))

IndexOf(s, ch) ==
  IF Contains(s, ch) THEN (CHOOSE i \in 1..Len(s) : s[i] = ch /\ \A j \in 1..(i - 1) : s[j] # ch) - 1
  ELSE -1

Name(c) ==
  LET name == Use(c)
      i == IndexOf(name, " ")
  IN IF i >= 0 THEN SubSeq(name, 1, i) ELSE name

HasParent(c) == parent[c] # Nil

\* c.parent
Parent(c) == parent[c]

\* the parent fields AddCommand leaves when it builds the tree t
ParentsOf(t) ==
  [c \in Cmds |-> IF \E p \in Cmds : c \in Range(t[p])
                  THEN CHOOSE p \in Cmds : c \in Range(t[p])
                  ELSE Nil]

\* len(c.CommandPath()) under the parent fields par; -1 when the walk up
\* the parents does not end (the recursion overflows the stack)
RECURSIVE pathLen(_, _, _)
pathLen(par, c, fuel) ==
  IF par[c] = Nil THEN Len(Name(c))
  ELSE IF fuel = 0 THEN -1
  ELSE IF pathLen(par, par[c], fuel - 1) < 0 THEN -1
  ELSE pathLen(par, par[c], fuel - 1) + 1 + Len(Name(c))

CommandPathLen(par, c) == pathLen(par, c, Cardinality(Cmds))

\* c.Root() under the parent fields par: the walk up the parents; Nil when
\* it does not end
RECURSIVE rootWalk(_, _, _)
rootWalk(par, c, fuel) ==
  IF par[c] = Nil THEN c
  ELSE IF fuel = 0 THEN Nil
  ELSE rootWalk(par, par[c], fuel - 1)

Root(c) == rootWalk(parent, c, Cardinality(Cmds))

HasSubCommands(c) == Len(commands[c]) > 0

hasNoOptDefVal(name, fs) == name \in fs /\ NoOptDefVal(name) # ""

shortNoOptDefVal(name, fs) ==
  /\ Len(name) # 0
  /\ \E f \in fs : Shorthand(f) = name[1] /\ NoOptDefVal(f) # ""

\* the second and third case of the switch of stripFlag, argsMinusFirstX:
\* a flag that takes the next token as its value
flagTakesNext(s, flags) ==
  \/ HasPrefix(s, <<"-", "-">>) /\ ~Contains(s, "=") /\ ~hasNoOptDefVal(From(s, 2), flags)
  \/ HasPrefix(s, <<"-">>) /\ ~Contains(s, "=") /\ Len(s) = 2
       /\ ~shortNoOptDefVal(From(s, 1), flags)

\* The loop of stripFlag.  `return commands` stands inside the loop, after the
\* switch, so the loop returns at the first token that is not a value-taking
\* flag or its value; `return args` ends the function, so a loop left by
\* break (or run to its end) returns what is left of args.
RECURSIVE stripFlagLoop(_, _)
stripFlagLoop(a, flags) ==
  IF Len(a) = 0 THEN a
  ELSE LET s == Head(a)
           rest == Tail(a)
       IN IF s = <<"-", "-">> THEN rest
          ELSE IF flagTakesNext(s, flags)
          THEN IF Len(rest) < 1 THEN rest ELSE stripFlagLoop(Tail(rest), flags)
          ELSE IF s # <<>> /\ ~HasPrefix(s, <<"=">>) THEN <<s>>
          ELSE <<>>

stripFlag(a, c) == IF Len(a) = 0 THEN a ELSE stripFlagLoop(a, Flags(c))

RECURSIVE argsMinusFirstXLoop(_, _, _, _)
argsMinusFirstXLoop(a, pos, x, flags) ==
  IF pos > Len(a) THEN a
  ELSE LET s == a[pos]
       IN IF s = <<"-", "-">> THEN a
          ELSE IF flagTakesNext(s, flags) THEN argsMinusFirstXLoop(a, pos + 2, x, flags)
          ELSE IF ~HasPrefix(s, <<"-">>) /\ s = x
          THEN SubSeq(a, 1, pos - 1) \o SubSeq(a, pos + 1, Len(a))
          ELSE argsMinusFirstXLoop(a, pos + 1, x, flags)

argsMinusFirstX(c, a, x) ==
  IF Len(a) = 0 THEN a ELSE argsMinusFirstXLoop(a, 1, x, Flags(c))

isFlagArgs(a) ==
  \/ Len(a) >= 3 /\ SubSeq(a, 1, 2) = <<"-", "-">>
  \/ Len(a) >= 2 /\ a[1] = "-" /\ a[2] # "-"

\* exact comparison of a name with a token
commandNameMatches(s, t) == s = t

HasAlias(c, s) == \E i \in 1..Len(Aliases(c)) : commandNameMatches(Aliases(c)[i], s)

\* HasNameOrAliasPrefix: whether it matches, and the commandCalledAs.name it leaves
HasNameOrAliasPrefix(c, prefix) ==
  IF HasPrefix(Name(c), prefix) THEN [ok |-> TRUE, name |-> Name(c)]
  ELSE IF \E i \in 1..Len(Aliases(c)) : HasPrefix(Aliases(c)[i], prefix)
  THEN [ok |-> TRUE,
        name |-> Aliases(c)[CHOOSE i \in 1..Len(Aliases(c)) :
                              /\ HasPrefix(Aliases(c)[i], prefix)
                              /\ \A j \in 1..(i - 1) : ~HasPrefix(Aliases(c)[j], prefix)]]
  ELSE [ok |-> FALSE, name |-> <<>>]

\* findNext without the immediate return on an exact match: the exact match
\* is collected like a prefix match
RECURSIVE findNextLoopNoExactReturn(_, _, _, _)
findNextLoopNoExactReturn(cmds, next, matches, called) ==
  IF cmds = <<>>
  THEN [cmd |-> IF Len(matches) = 1 THEN matches[1] ELSE Nil, called |-> called]
  ELSE LET cmd == Head(cmds)
           pre == HasNameOrAliasPrefix(cmd, next)
       IN IF commandNameMatches(Name(cmd), next) \/ HasAlias(cmd, next)
          THEN findNextLoopNoExactReturn(Tail(cmds), next, Append(matches, cmd),
                                         [called EXCEPT ![cmd] = next])
          ELSE IF EnablePrefixMatching /\ pre.ok
          THEN findNextLoopNoExactReturn(Tail(cmds), next, Append(matches, cmd),
                                         [called EXCEPT ![cmd] = pre.name])
          ELSE findNextLoopNoExactReturn(Tail(cmds), next, matches, called)

\* findNext that takes the first prefix match however many there are
RECURSIVE findNextLoopFirstMatch(_, _, _, _)
findNextLoopFirstMatch(cmds, next, matches, called) ==
  IF cmds = <<>>
  THEN [cmd |-> IF Len(matches) >= 1 THEN matches[1] ELSE Nil, called |-> called]
  ELSE LET cmd == Head(cmds)
           pre == HasNameOrAliasPrefix(cmd, next)
       IN IF commandNameMatches(Name(cmd), next) \/ HasAlias(cmd, next)
          THEN [cmd |-> cmd, called |-> [called EXCEPT ![cmd] = next]]
          ELSE IF EnablePrefixMatching /\ pre.ok
          THEN findNextLoopFirstMatch(Tail(cmds), next, Append(matches, cmd),
                                      [called EXCEPT ![cmd] = pre.name])
          ELSE findNextLoopFirstMatch(Tail(cmds), next, matches, called)

\* The loop of findNext over the children cmds: the command found (or Nil)
\* and the commandCalledAs names as the loop leaves them.
RECURSIVE findNextLoop(_, _, _, _)
findNextLoop(cmds, next, matches, called) ==
  IF cmds = <<>>
  THEN [cmd |-> IF Len(matches) = 1 THEN matches[1] ELSE Nil, called |-> called]
  ELSE LET cmd == Head(cmds)
           pre == HasNameOrAliasPrefix(cmd, next)
       IN IF commandNameMatches(Name(cmd), next) \/ HasAlias(cmd, next)
          THEN [cmd |-> cmd, called |-> [called EXCEPT ![cmd] = next]]
          ELSE IF EnablePrefixMatching /\ pre.ok
          THEN findNextLoop(Tail(cmds), next, Append(matches, cmd),
                            [called EXCEPT ![cmd] = pre.name])
          ELSE findNextLoop(Tail(cmds), next, matches, called)

findNext(c, next, called) == findNextLoop(commands[c], next, <<>>, called)

\* innerfind of Find; levels records every call: the node, its arguments,
\* what stripFlag returned and the child findNext chose
RECURSIVE innerfind(_, _, _, _)
innerfind(c, innerArgs, called, levels) ==
  LET argsWOflags == stripFlag(innerArgs, c)
      level == [node |-> c, args |-> innerArgs, stripped |-> argsWOflags, next |-> Nil]
  IN IF Len(argsWOflags) = 0
     THEN [cmd |-> c, args |-> innerArgs, called |-> called,
           levels |-> Append(levels, level)]
     ELSE LET nextSubCmd == argsWOflags[1]
              f == findNext(c, nextSubCmd, called)
          IN IF f.cmd # Nil
             THEN innerfind(f.cmd, argsMinusFirstX(c, innerArgs, nextSubCmd), f.called,
                            Append(levels, [level EXCEPT !.next = f.cmd]))
             ELSE [cmd |-> c, args |-> innerArgs, called |-> f.called,
                   levels |-> Append(levels, level)]

NoError == [kind |-> "nil", arg |-> <<>>]

legactArgs(cmd, a) ==
  IF ~HasSubCommands(cmd) THEN NoError
  ELSE IF ~HasParent(cmd) /\ Len(a) > 0
  THEN [kind |-> "unknown command", arg |-> a[1]]
  ELSE NoError

\* a nil slice, and the slice v
NilArgs == [isNil |-> TRUE, v |-> <<>>]
Slice(v) == [isNil |-> FALSE, v |-> v]

\* Command.args of a command: SetArgs is modelled on the root
ArgsOf(c) == IF c = "root" THEN args ELSE NilArgs

\* findSuggestion, called for the text of the unknown-command error, resets a
\* minimum distance that is not positive
findSuggestionDistance(e, d) ==
  IF e.kind = "unknown command" /\ d <= 0 THEN 2 ELSE d

\* ParseFlags of the flag set: the first token it rejects, and the flags it
\* sets.  A long flag is looked up by the name before '='; a flag without a
\* no-value default and without '=' takes the next token.
RECURSIVE parseLoop(_, _, _)
parseLoop(toks, fs, set) ==
  IF toks = <<>> \/ Head(toks) = <<"-", "-">> THEN [err |-> NoError, set |-> set]
  ELSE LET s == Head(toks)
           long == HasPrefix(s, <<"-", "-">>)
           short == ~long /\ HasPrefix(s, <<"-">>) /\ Len(s) >= 2
           body == From(s, 2)
           eq == IndexOf(body, "=")
           lname == IF eq >= 0 THEN SubSeq(body, 1, eq) ELSE body
           sflags == {f \in fs : Shorthand(f) = s[2]}
       IN IF long
          THEN IF lname \notin fs THEN [err |-> [kind |-> "unknown flag", arg |-> s], set |-> set]
               ELSE IF eq >= 0 \/ NoOptDefVal(lname) # ""
               THEN parseLoop(Tail(toks), fs, set \cup {lname})
               ELSE IF Len(toks) < 2
               THEN [err |-> [kind |-> "flag needs an argument", arg |-> s], set |-> set]
               ELSE parseLoop(Tail(Tail(toks)), fs, set \cup {lname})
          ELSE IF short
          THEN IF sflags = {}
               THEN [err |-> [kind |-> "unknown shorthand flag", arg |-> s], set |-> set]
               ELSE IF Len(s) > 2 \/ (\E f \in sflags : NoOptDefVal(f) # "")
               THEN parseLoop(Tail(toks), fs, set \cup sflags)
               ELSE IF Len(toks) < 2
               THEN [err |-> [kind |-> "flag needs an argument", arg |-> s], set |-> set]
               ELSE parseLoop(Tail(Tail(toks)), fs, set \cup sflags)
          ELSE parseLoop(Tail(toks), fs, set)

ParseFlags(c, flagArgs) == parseLoop(flagArgs, Flags(c), {})

\* The loop of Traverse on c from position i; st carries the commandCalledAs
\* names, the flags set so far and the record of the calls of findNext
\* (lookups) and of ParseFlags (parsed).
RECURSIVE traverseLoop(_, _, _, _, _, _)
traverseLoop(c, a, i, flags, inFlag, st) ==
  IF i > Len(a) THEN [st EXCEPT !.cmd = c, !.args = a]
  ELSE LET arg == a[i]
       IN IF HasPrefix(arg, <<"-", "-">>) /\ ~Contains(arg, "=")
          THEN traverseLoop(c, a, i + 1, Append(flags, arg),
                            ~hasNoOptDefVal(From(arg, 2), Flags(c)), st)
          ELSE IF HasPrefix(arg, <<"-">>) /\ ~Contains(arg, "=") /\ Len(arg) = 2
                    /\ ~shortNoOptDefVal(From(arg, 1), Flags(c))
          THEN traverseLoop(c, a, i + 1, Append(flags, arg), TRUE, st)
          ELSE IF inFlag
          THEN traverseLoop(c, a, i + 1, Append(flags, arg), TRUE, st)
          ELSE IF isFlagArgs(arg)
          THEN traverseLoop(c, a, i + 1, Append(flags, arg), inFlag, st)
          ELSE LET f == findNext(c, arg, st.called)
                   p == ParseFlags(c, flags)
                   looked == Append(st.lookups, [node |-> c, arg |-> arg, next |-> f.cmd])
               IN IF f.cmd = Nil
                  THEN [st EXCEPT !.cmd = c, !.args = a, !.called = f.called,
                                  !.lookups = looked]
                  ELSE IF p.err # NoError
                  THEN [st EXCEPT !.cmd = Nil, !.args = a, !.err = p.err,
                                  !.called = f.called, !.lookups = looked,
                                  !.parsed = Append(@, [node |-> c, flags |-> flags])]
                  ELSE traverseLoop(f.cmd, From(a, i), 1, <<>>, FALSE,
                         [st EXCEPT !.called = f.called, !.lookups = looked,
                                    !.set = @ \cup p.set,
                                    !.parsed = Append(@, [node |-> c, flags |-> flags])])

NoResult ==
  [op |-> "none", cmd |-> Nil, args |-> <<>>, err |-> NoError, levels |-> <<>>,
   lookups |-> <<>>, parsed |-> <<>>]

\* root.SetArgs(a), and Execute then resolves a
SetArgs(a) ==
  /\ pc = "config"
  /\ args' = Slice(a)
  /\ argv' = a
  /\ pc' = "ready"
  /\ UNCHANGED <<commands, EnablePrefixMatching, calledAs, SuggestionsMinimumDistance, res>>
  /\ UNCHANGED <<groupVars, Changed, otherVars>>

\* the program is started with the arguments a; root.args stays nil
OsArgs(a) ==
  /\ pc = "config"
  /\ argv' = a
  /\ pc' = "ready"
  /\ UNCHANGED <<commands, EnablePrefixMatching, args, calledAs,
                 SuggestionsMinimumDistance, res>>
  /\ UNCHANGED <<groupVars, Changed, otherVars>>

\* root.Find(argv)
Find ==
  /\ pc = "ready"
  /\ LET r == innerfind("root", argv, calledAs, <<>>)
         e == IF ArgsOf(r.cmd).isNil
              THEN legactArgs(r.cmd, stripFlag(r.args, r.cmd))
              ELSE NoError
     IN /\ res' = [op |-> "Find", cmd |-> r.cmd, args |-> r.args, err |-> e,
                   levels |-> r.levels, lookups |-> <<>>, parsed |-> <<>>]
        /\ calledAs' = r.called
        /\ SuggestionsMinimumDistance' = findSuggestionDistance(e, SuggestionsMinimumDistance)
  /\ pc' = "done"
  /\ UNCHANGED <<commands, EnablePrefixMatching, args, argv>>
  /\ UNCHANGED <<groupVars, Changed, otherVars>>

\* root.Traverse(argv)
Traverse ==
  /\ pc = "ready"
  /\ LET r == traverseLoop("root", argv, 1, <<>>, FALSE,
                           [cmd |-> Nil, args |-> <<>>, err |-> NoError,
                            called |-> calledAs, set |-> {}, lookups |-> <<>>,
                            parsed |-> <<>>])
     IN /\ res' = [op |-> "Traverse", cmd |-> r.cmd, args |-> r.args, err |-> r.err,
                   levels |-> <<>>, lookups |-> r.lookups, parsed |-> r.parsed]
        /\ calledAs' = r.called
        /\ Changed' = Changed \cup r.set
  /\ pc' = "done"
  /\ UNCHANGED <<commands, EnablePrefixMatching, args, argv, SuggestionsMinimumDistance>>
  /\ UNCHANGED <<groupVars, otherVars>>

\* the execution variables of a tree that is resolved only
ExecIdle ==
  /\ TraverseChildren = FALSE
  /\ flagErrorFunc = [c \in Cmds |-> FALSE]

\* plain commands: all runnable, none hidden or deprecated, no help command
SugIdle ==
  /\ Hidden = {}
  /\ Deprecated = {}
  /\ Runnable = Cmds
  /\ helpCommand = "nil"
  /\ DisableSuggestions = FALSE

\* a tree as AddCommand built it, and a process that runs
TreeIdle ==
  /\ parent = ParentsOf(commands)
  /\ crashed = FALSE

None == "none"

Goroutines == {"g1", "g2", "g3"}

\* the names RegisterFlagCompletionFunc and GetFlagCompletionFunc are
\* called with: two flags of the command and a name it has no flag for
tMissing == <<"z", "z">>
RegNames == {fName, fAll, tMissing}

\* what a call returned: the error of a registration ("ok" for nil), or
\* the function and the flag of a lookup
Returned(err, hook, exists) == [err |-> err, hook |-> hook, exists |-> exists]

NotReturned == Returned(None, None, FALSE)

IdleGoroutine == [pc |-> "idle", op |-> None, flag |-> <<>>, result |-> NotReturned]

\* an empty registry, an unlocked mutex, no call under way
RegIdle ==
  /\ flagCompletionFunctions = [f \in TreeFlagNames |-> None]
  /\ flagCompletionMutex = [writer |-> None, readers |-> {}]
  /\ goroutines = [g \in Goroutines |-> IdleGoroutine]

\* the result of string() before it is called
NoString == [unexpected |-> FALSE, value |-> 0, names |-> <<>>]

\* the zero directive, not yet printed
DirIdle ==
  /\ directive = 0
  /\ directiveString = NoString

\* the completion function returns nothing and the default directive
NoValidArgs == [completions |-> <<>>, directive |-> 0]

configEnvVarGlobalPrefix == <<"C", "O", "B", "R", "A">>

activeHelpEnvVarSuffix == "ACTIVE_HELP"

\* the name of the variable of a program for one setting
configEnvVar(name, suffix) == <<name, suffix>>

activeHelpGlobalEnvVar == <<configEnvVarGlobalPrefix, activeHelpEnvVarSuffix>>

activeHelpEnvVar(name) == configEnvVar(name, activeHelpEnvVarSuffix)

\* the variables the environment may set, and their values
EnvVars == {activeHelpGlobalEnvVar, activeHelpEnvVar(Name("root"))}

EnvValues == {"", "0", "1"}

NoEnviron == [k \in EnvVars |-> ""]

\* os.Getenv(k): empty for a variable that is not set
Getenv(k) == IF k \in DOMAIN environ THEN environ[k] ELSE ""

\* nothing configured for completion, nothing written
RunIdle ==
  /\ helpFlagBool = TRUE
  /\ environ = NoEnviron
  /\ descriptionsEnv = ""
  /\ validArgsFunction = NoValidArgs
  /\ stdout = <<>>
  /\ stderr = <<>>

\* no flag required or hidden, no completion pass over the groups
EnfIdle ==
  /\ required = {}
  /\ hiddenFlags = {}
  /\ enforced = "none"

\* the commands of the flag views: root, its child status and status's child sub
ViewCmds == {"root", "status", "sub"}

NoCalls == [calls |-> 0, first |-> {}]

\* no flag declared, no view computed
ViewIdle ==
  /\ cflags = [c \in ViewCmds |-> {}]
  /\ pflags = [c \in ViewCmds |-> {}]
  /\ lflags = [c \in ViewCmds |-> {}]
  /\ iflags = [c \in ViewCmds |-> {}]
  /\ parentsPflags = [c \in ViewCmds |-> {}]
  /\ flagPanic = FALSE
  /\ viewCalls = [c \in ViewCmds |-> [local |-> NoCalls, inherited |-> NoCalls]]

\* a hook of a stage: which of its two forms are set
Hook(plain, e) == [plain |-> plain, e |-> e]
NoHook == Hook(FALSE, FALSE)

StageNames == {"PersistentPreRun", "PreRun", "Run", "PostRun", "PersistentPostRun"}

NoValidator == [kind |-> "nil", min |-> 0, max |-> 0]

NoExecErr == [kind |-> "none", at |-> ""]

\* no hook set, nothing executed
HookIdle ==
  /\ hooks = [c \in GroupCmds |-> [st \in StageNames |-> NoHook]]
  /\ failing = {}
  /\ EnableTraverseRunHooks = FALSE
  /\ Args = NoValidator
  /\ Version = ""
  /\ resolvedCmd = Nil
  /\ invoked = <<>>
  /\ helpShown = FALSE
  /\ execErr = NoExecErr

\* the completion state while another part is exercised
CompIdle ==
  /\ RegIdle
  /\ DirIdle
  /\ RunIdle
  /\ EnfIdle
  /\ ViewIdle
  /\ HookIdle

\* the variables of the other parts while one part is exercised
OtherIdle ==
  /\ ExecIdle
  /\ SugIdle
  /\ TreeIdle
  /\ CompIdle

\* the resolver's variables while the flag groups are exercised
FindIdle ==
  /\ commands = [c \in Cmds |-> <<>>]
  /\ OtherIdle
  /\ EnablePrefixMatching = FALSE
  /\ args = NilArgs
  /\ argv = <<>>
  /\ calledAs = [c \in Cmds |-> <<>>]
  /\ SuggestionsMinimumDistance = 0
  /\ pc = "config"
  /\ res = NoResult

FindInit ==
  /\ commands \in Trees
  /\ OtherIdle
  /\ EnablePrefixMatching \in BOOLEAN
  /\ args = NilArgs
  /\ argv = <<>>
  /\ calledAs = [c \in Cmds |-> <<>>]
  /\ SuggestionsMinimumDistance = 0
  /\ pc = "config"
  /\ res = NoResult
  /\ cmdFlags = {}
  /\ CommandLine = {}
  /\ Changed = {}
  /\ Annotations = [k \in GroupAnnotations |-> [n \in FlagNames |-> <<>>]]
  /\ DisableFlagParsing = [c \in GroupCmds |-> FALSE]
  /\ nmarks = 0
  /\ panicked = FALSE
  /\ validated = "none"
  /\ verr = NoErr

FindNext ==
  \/ pc = "config" /\ \E a \in ArgVectors : SetArgs(a)
  \/ pc = "config" /\ \E a \in ArgVectors : OsArgs(a)
  \/ Find
  \/ Traverse

SpecFind == FindInit /\ [][FindNext]_vars

GroupInit ==
  /\ cmdFlags = {}
  /\ CommandLine = {}
  /\ Changed = {}
  /\ Annotations = [k \in GroupAnnotations |-> [n \in FlagNames |-> <<>>]]
  /\ DisableFlagParsing \in {[c \in GroupCmds |-> FALSE],
                             [c \in GroupCmds |-> c = "parent"]}
  /\ nmarks = 0
  /\ panicked = FALSE
  /\ validated = "none"
  /\ verr = NoErr
  /\ FindIdle

GroupNext ==
  \/ \E n \in FlagNames : AddFlag(n)
  \/ \E n \in FlagNames : CommandLineAddFlag(n)
  \/ \E n \in FlagNames : SetFlag(n)
  \/ \E c \in GroupCmds, names \in MarkArgs : MarkFlagsRequiredTogether(c, names)
  \/ \E c \in GroupCmds, names \in MarkArgs : MarkFlagsOneRequired(c, names)
  \/ \E c \in GroupCmds, names \in MarkArgs : MarkFlagsMutuallyExclusive(c, names)
  \/ \E c \in GroupCmds : Validate(c)

SpecGroups == GroupInit /\ [][GroupNext]_vars

\* the declarations alone: the flags are added and the groups declared
MarkNext ==
  \/ \E n \in FlagNames : AddFlag(n)
  \/ \E c \in GroupCmds, names \in MarkArgs : MarkFlagsRequiredTogether(c, names)
  \/ \E c \in GroupCmds, names \in MarkArgs : MarkFlagsOneRequired(c, names)
  \/ \E c \in GroupCmds, names \in MarkArgs : MarkFlagsMutuallyExclusive(c, names)

SpecMarks == GroupInit /\ [][MarkNext]_vars

\* the validation of declared groups: the flags of the parent, the flags on
\* flag.CommandLine and the flags set are fixed when the program starts,
\* the groups are declared and the commands validated
OrderInit ==
  /\ cmdFlags \in {{<<"a">>}, FlagNames}
  /\ CommandLine \in SUBSET FlagNames
  /\ Changed \in SUBSET FlagNames
  /\ Annotations = [k \in GroupAnnotations |-> [n \in FlagNames |-> <<>>]]
  /\ DisableFlagParsing = [c \in GroupCmds |-> FALSE]
  /\ nmarks = 0
  /\ panicked = FALSE
  /\ validated = "none"
  /\ verr = NoErr
  /\ FindIdle

OrderNext ==
  \/ \E c \in GroupCmds, names \in MarkArgs : MarkFlagsRequiredTogether(c, names)
  \/ \E c \in GroupCmds, names \in MarkArgs : MarkFlagsOneRequired(c, names)
  \/ \E c \in GroupCmds, names \in MarkArgs : MarkFlagsMutuallyExclusive(c, names)
  \/ \E c \in GroupCmds : Validate(c)

SpecOrder == OrderInit /\ [][OrderNext]_vars

\* --------------------------------------------------------------- execution
\* FlagErrorFunc(): the command whose flagErrorFunc is returned, "default"
\* for the function that returns the error as it is
RECURSIVE FlagErrorFuncOf(_)
FlagErrorFuncOf(c) ==
  IF flagErrorFunc[c] THEN c
  ELSE IF HasParent(c) THEN FlagErrorFuncOf(Parent(c))
  ELSE "default"

\* what the function of owner returns for err: a function set by the user
\* returns an error of its own that carries the flag
applyFlagErrorFunc(owner, err) ==
  IF owner = "default" THEN err ELSE [kind |-> "flag error hook", arg |-> err.arg]

\* an unknown flag, for the trees of the executions
tBad == <<"-", "-", "b", "a", "d">>
tBadEq == <<"-", "-", "b", "a", "d", "=", "x">>

ExecTokens == {tStatus, tX, tName, tAll, tNameEq, tBad, tBadEq}
ExecArgVectors == UNION {[1..n -> ExecTokens] : n \in 0..MaxArgs}

ExecTrees ==
  { [c \in Cmds |-> IF c = "root" THEN <<"status", "start">>
                    ELSE IF c = "status" THEN <<"sub">> ELSE <<>>],
    [c \in Cmds |-> IF c = "root" THEN <<"status", "build">> ELSE <<>>] }

\* execute(a) on c up to its return after the flags are parsed: the error,
\* the flags set and the calls of the flag error function.  GetBool("help")
\* on the bool flag that InitDefaultHelpFlag declares returns a nil error,
\* and `if err == nil` then returns it.  p is what ParseFlags returned and
\* owner the command whose flag error function FlagErrorFunc() gives.
executeParsed(c, p, owner) ==
  IF p.err # NoError
  THEN [err |-> applyFlagErrorFunc(owner, p.err), set |-> p.set,
        hooks |-> <<[owner |-> owner, cmd |-> c, err |-> p.err]>>]
  ELSE [err |-> NoError, set |-> p.set, hooks |-> <<>>]

execute(c, a) == executeParsed(c, ParseFlags(c, a), FlagErrorFuncOf(c))

\* what ExecuteC keeps of the result r of Traverse
traversed(r) ==
  [cmd |-> r.cmd, args |-> r.args, err |-> r.err, called |-> r.called,
   set |-> r.set, parsed |-> r.parsed]

\* what ExecuteC keeps of the result r of innerfind, with the error of Find
found(r) ==
  [cmd |-> r.cmd, args |-> r.args,
   err |-> IF ArgsOf(r.cmd).isNil THEN legactArgs(r.cmd, stripFlag(r.args, r.cmd))
           ELSE NoError,
   called |-> r.called, set |-> {}, parsed |-> <<>>]

\* the resolution of ExecuteC
resolve(a) ==
  IF TraverseChildren
  THEN traversed(traverseLoop("root", a, 1, <<>>, FALSE,
                              [cmd |-> Nil, args |-> <<>>, err |-> NoError,
                               called |-> calledAs, set |-> {}, lookups |-> <<>>,
                               parsed |-> <<>>]))
  ELSE found(innerfind("root", a, calledAs, <<>>))

\* ExecuteC returns the error of the resolution r
resolveFailed(r) ==
  [out |-> [op |-> "ExecuteC", cmd |-> IF r.cmd # Nil THEN r.cmd ELSE "root",
            args |-> r.args, err |-> r.err, levels |-> <<>>,
            lookups |-> <<>>, parsed |-> r.parsed, resolved |-> Nil,
            resolveErr |-> r.err, hooks |-> <<>>],
   called |-> r.called,
   set |-> r.set]

\* ExecuteC returns what execute returned, x, on the command resolved
executed(r, x) ==
  [out |-> [op |-> "ExecuteC", cmd |-> r.cmd, args |-> r.args,
            err |-> x.err, levels |-> <<>>, lookups |-> <<>>,
            parsed |-> r.parsed, resolved |-> r.cmd,
            resolveErr |-> NoError, hooks |-> x.hooks],
   called |-> [r.called EXCEPT ![r.cmd] = IF @ = <<>> THEN Name(r.cmd) ELSE @],
   set |-> r.set \cup x.set]

resolved(r) ==
  IF r.err # NoError THEN resolveFailed(r) ELSE executed(r, execute(r.cmd, r.args))

\* ExecuteC on the root with the arguments a: what it returns, with the
\* names, the flags and the calls it leaves
executeC(a) == resolved(resolve(a))

\* root.SetFlagErrorFunc(f), status.SetFlagErrorFunc(f)
SetFlagErrorFunc(c) ==
  /\ pc = "config"
  /\ ~flagErrorFunc[c]
  /\ flagErrorFunc' = [flagErrorFunc EXCEPT ![c] = TRUE]
  /\ UNCHANGED <<TraverseChildren, findVars, groupVars, Changed, sugVars, treeVars, compVars>>

\* the state ExecuteC leaves when it returns e
returned(e) ==
  /\ res' = e.out
  /\ calledAs' = e.called
  /\ Changed' = Changed \cup e.set
  /\ SuggestionsMinimumDistance' =
       IF TraverseChildren THEN SuggestionsMinimumDistance
       ELSE findSuggestionDistance(e.out.resolveErr, SuggestionsMinimumDistance)

\* root.ExecuteC() with the arguments SetArgs stored
ExecuteC ==
  /\ pc = "ready"
  /\ returned(executeC(args.v))
  /\ pc' = "done"
  /\ UNCHANGED <<commands, EnablePrefixMatching, args, argv>>
  /\ UNCHANGED <<groupVars, execVars, sugVars, treeVars, compVars>>

ExecInit ==
  /\ commands \in ExecTrees
  /\ EnablePrefixMatching = FALSE
  /\ args = NilArgs
  /\ argv = <<>>
  /\ calledAs = [c \in Cmds |-> <<>>]
  /\ SuggestionsMinimumDistance = 0
  /\ pc = "config"
  /\ res = NoResult
  /\ TraverseChildren \in BOOLEAN
  /\ flagErrorFunc = [c \in Cmds |-> FALSE]
  /\ SugIdle
  /\ TreeIdle
  /\ CompIdle
  /\ cmdFlags = {}
  /\ CommandLine = {}
  /\ Changed = {}
  /\ Annotations = [k \in GroupAnnotations |-> [n \in FlagNames |-> <<>>]]
  /\ DisableFlagParsing = [c \in GroupCmds |-> FALSE]
  /\ nmarks = 0
  /\ panicked = FALSE
  /\ validated = "none"
  /\ verr = NoErr

ExecNext ==
  \/ \E c \in {"root", "status"} : SetFlagErrorFunc(c)
  \/ pc = "config" /\ \E a \in ExecArgVectors : SetArgs(a)
  \/ ExecuteC

SpecExec == ExecInit /\ [][ExecNext]_vars

\* ------------------------------------------------------------- suggestions
\* strings.ToLower on the letters that occur
ToLowerChar(ch) ==
  CASE ch = "L" -> "l" [] ch = "S" -> "s" [] ch = "I" -> "i" [] ch = "H" -> "h"
    [] ch = "G" -> "g" [] ch = "O" -> "o" [] ch = "T" -> "t"
    [] OTHER -> ch

ToLower(s) == [i \in DOMAIN s |-> ToLowerChar(s[i])]

EqualFold(s, t) == ToLower(s) = ToLower(t)

Min(a, b) == IF a <= b THEN a ELSE b

\* ld(s, t, ignoreCase): the Levenshtein distance, by the table d of the
\* distances of the prefixes of s and t
ld(s, t, ignoreCase) ==
  LET a == IF ignoreCase THEN ToLower(s) ELSE s
      b == IF ignoreCase THEN ToLower(t) ELSE t
      d[i \in 0..Len(a), j \in 0..Len(b)] ==
        IF i = 0 THEN j
        ELSE IF j = 0 THEN i
        ELSE IF a[i] = b[j] THEN d[i - 1, j - 1]
        ELSE Min(d[i - 1, j], Min(d[i, j - 1], d[i - 1, j - 1])) + 1
  IN d[Len(a), Len(b)]

\* Command.SuggestFor
SuggestFor(c) ==
  IF c = "Log" THEN << <<"h", "i">> >>
  ELSE IF c = "ls" THEN << <<"d", "i", "r">> >>
  ELSE <<>>

RECURSIVE IsAvailableCommand(_)
IsAvailableCommand(c) ==
  IF c \in Deprecated \/ c \in Hidden THEN FALSE
  ELSE IF HasParent(c) /\ Parent(c) = "root" /\ helpCommand = c THEN FALSE
  ELSE c \in Runnable \/ \E k \in Range(commands[c]) : IsAvailableCommand(k)

\* the names one child adds when the distance must stay below the minimum
suggestionsOfBelow(cmd, typedName, minimum) ==
  IF ~IsAvailableCommand(cmd) THEN <<>>
  ELSE (IF ld(typedName, Name(cmd), TRUE) < minimum
           \/ HasPrefix(ToLower(Name(cmd)), ToLower(typedName))
        THEN <<Name(cmd)>> ELSE <<>>)
       \o SelectSeq([i \in DOMAIN SuggestFor(cmd) |->
                       IF EqualFold(typedName, SuggestFor(cmd)[i]) THEN Name(cmd) ELSE <<>>],
                    LAMBDA n : n # <<>>)

\* the names one child adds to the suggestions
suggestionsOf(cmd, typedName, minimum) ==
  IF ~IsAvailableCommand(cmd) THEN <<>>
  ELSE (IF ld(typedName, Name(cmd), TRUE) <= minimum
           \/ HasPrefix(ToLower(Name(cmd)), ToLower(typedName))
        THEN <<Name(cmd)>> ELSE <<>>)
       \o SelectSeq([i \in DOMAIN SuggestFor(cmd) |->
                       IF EqualFold(typedName, SuggestFor(cmd)[i]) THEN Name(cmd) ELSE <<>>],
                    LAMBDA n : n # <<>>)

RECURSIVE suggestionLoop(_, _, _)
suggestionLoop(cmds, typedName, minimum) ==
  IF cmds = <<>> THEN <<>>
  ELSE suggestionsOf(Head(cmds), typedName, minimum)
       \o suggestionLoop(Tail(cmds), typedName, minimum)

SuggestionFor(c, typedName, minimum) == suggestionLoop(commands[c], typedName, minimum)

\* the tokens mistyped
tLsit == <<"l", "s", "i", "t">>
tLI == <<"L", "I">>
tHI == <<"H", "I">>
tLg == <<"l", "g">>
tDir == <<"d", "i", "r">>
tSt == <<"s", "t">>

TypedNames == {tLsit, tLI, tHI, tLg, tDir, tSt, tX}

SugTrees ==
  { [c \in Cmds |-> IF c = "root" THEN <<"list", "ls", "Log">> ELSE <<>>],
    [c \in Cmds |-> IF c = "root" THEN <<"list", "ls">>
                    ELSE IF c = "list" THEN <<"sub">> ELSE <<>>] }

\* root.SetHelpCommand(c)
SetHelpCommand(c) ==
  /\ pc = "config"
  /\ helpCommand = Nil
  /\ c \in Range(commands["root"])
  /\ helpCommand' = c
  /\ UNCHANGED <<Hidden, Deprecated, Runnable, DisableSuggestions>>
  /\ UNCHANGED <<groupVars, Changed, findVars, execVars, treeVars, compVars>>

\* root.findSuggestion(typedName): the suggestions it prints
FindSuggestion(typedName) ==
  /\ pc = "config"
  /\ SuggestionsMinimumDistance' =
       IF ~DisableSuggestions /\ SuggestionsMinimumDistance <= 0 THEN 2
       ELSE SuggestionsMinimumDistance
  /\ res' = [op |-> "findSuggestion", typedName |-> typedName,
             configured |-> SuggestionsMinimumDistance,
             suggestions |->
               IF DisableSuggestions THEN <<>>
               ELSE SuggestionFor("root", typedName, SuggestionsMinimumDistance')]
  /\ pc' = "done"
  /\ UNCHANGED <<commands, EnablePrefixMatching, args, argv, calledAs>>
  /\ UNCHANGED <<groupVars, Changed, execVars, sugVars, treeVars, compVars>>

SugInit ==
  /\ commands \in SugTrees
  /\ Hidden \in {{}, {"ls"}, {"list"}}
  /\ Deprecated \in {{}, {"list"}, {"sub"}}
  /\ Runnable \in {Cmds, Cmds \ {"list"}, Cmds \ {"ls", "sub"}}
  /\ helpCommand = Nil
  /\ DisableSuggestions \in BOOLEAN
  /\ SuggestionsMinimumDistance \in {-1, 0, 1, 2, 3}
  /\ EnablePrefixMatching = FALSE
  /\ args = NilArgs
  /\ argv = <<>>
  /\ calledAs = [c \in Cmds |-> <<>>]
  /\ pc = "config"
  /\ res = NoResult
  /\ ExecIdle
  /\ TreeIdle
  /\ CompIdle
  /\ cmdFlags = {}
  /\ CommandLine = {}
  /\ Changed = {}
  /\ Annotations = [k \in GroupAnnotations |-> [n \in FlagNames |-> <<>>]]
  /\ DisableFlagParsing = [c \in GroupCmds |-> FALSE]
  /\ nmarks = 0
  /\ panicked = FALSE
  /\ validated = "none"
  /\ verr = NoErr

SugNext ==
  \/ \E c \in {"ls", "list"} : SetHelpCommand(c)
  \/ \E t \in TypedNames : FindSuggestion(t)

SpecSuggest == SugInit /\ [][SugNext]_vars

\* -------------------------------------------------------------- tree edits
TreeCmds == {"root", "status", "start"}

\* the argument lists of AddCommand and RemoveCommand
CmdLists == UNION {[1..n -> TreeCmds] : n \in 0..2}

\* the state AddCommand works on; outcome is "ok", "panic" or "overflow",
\* at the index of the argument at which the call stopped
treeState == [commands |-> commands, parent |-> parent, outcome |-> "ok", at |-> 0]

\* the body of the loop of AddCommand for cmds[i] = x, after the test for c
\* itself: st has x.parent set already.  The widths commandsMaxUseLen,
\* commandsMaxCommandPathLen and commandsMaxNameLen it raises only pad the
\* usage text; of their computation the call x.CommandPath() is kept, which
\* does not return when the parents of x form a cycle.
addOne(c, x, i, st) ==
  IF CommandPathLen(st.parent, x) < 0
  THEN [st EXCEPT !.outcome = "overflow", !.at = i]
  ELSE [st EXCEPT !.commands[c] = Append(@, x)]

\* AddCommand without the test for the command itself
RECURSIVE addLoopNoSelfTest(_, _, _, _)
addLoopNoSelfTest(c, cmds, i, st) ==
  IF i > Len(cmds) \/ st.outcome # "ok" THEN st
  ELSE addLoopNoSelfTest(c, cmds, i + 1,
                         addOne(c, cmds[i], i, [st EXCEPT !.parent[cmds[i]] = c]))

RECURSIVE addLoop(_, _, _, _)
addLoop(c, cmds, i, st) ==
  IF i > Len(cmds) \/ st.outcome # "ok" THEN st
  ELSE IF cmds[i] = c THEN [st EXCEPT !.outcome = "panic", !.at = i]
  ELSE addLoop(c, cmds, i + 1,
               addOne(c, cmds[i], i, [st EXCEPT !.parent[cmds[i]] = c]))

\* the inner loop of RemoveCommand for one child: `continue main` at the
\* first cmd equal to it, an append to commands for every cmd before that
RECURSIVE removeInner(_, _, _, _)
removeInner(command, cmds, j, kept) ==
  IF j > Len(cmds) THEN [matched |-> FALSE, kept |-> kept]
  ELSE IF command = cmds[j] THEN [matched |-> TRUE, kept |-> kept]
  ELSE removeInner(command, cmds, j + 1, Append(kept, command))

\* the rest of the outer loop's body, reached when no cmd matched: c.commands
\* is assigned and the maxima are computed again
removeAssign(c, kept, st) ==
  IF \E k \in Range(kept) : CommandPathLen(st.parent, k) < 0
  THEN [st EXCEPT !.commands[c] = kept, !.outcome = "overflow"]
  ELSE [st EXCEPT !.commands[c] = kept]

removeStep(c, command, inner, st) ==
  IF inner.matched
  THEN [st EXCEPT !.parent[command] = Nil, !.kept = inner.kept]
  ELSE removeAssign(c, inner.kept, [st EXCEPT !.kept = inner.kept])

\* the outer loop of RemoveCommand over range, the children when it began
RECURSIVE removeLoop(_, _, _, _)
removeLoop(c, range, cmds, st) ==
  IF range = <<>> \/ st.outcome # "ok" THEN st
  ELSE removeLoop(c, Tail(range), cmds,
                  removeStep(c, Head(range), removeInner(Head(range), cmds, 1, st.kept), st))

\* the number of entries of the children lists of a state
RECURSIVE entries(_, _)
entries(st, cs) ==
  IF cs = {} THEN 0
  ELSE LET c == CHOOSE c \in cs : TRUE
       IN Len(st.commands[c]) + entries(st, cs \ {c})

\* the program goes on in the state st an edit has left
edited(op, st) ==
  /\ entries(st, TreeCmds) <= MaxChildren
  /\ commands' = st.commands
  /\ parent' = st.parent
  /\ crashed' = (st.outcome = "overflow")
  /\ res' = [op |-> op, outcome |-> st.outcome]

\* c.AddCommand(cmds...)
AddCommand(c, cmds) ==
  /\ ~crashed
  /\ edited("AddCommand", addLoop(c, cmds, 1, treeState))
  /\ UNCHANGED <<EnablePrefixMatching, args, argv, calledAs, SuggestionsMinimumDistance, pc>>
  /\ UNCHANGED <<groupVars, Changed, execVars, sugVars, compVars>>

\* c.RemoveCommand(cmds...)
RemoveCommand(c, cmds) ==
  /\ ~crashed
  /\ edited("RemoveCommand",
            removeLoop(c, commands[c], cmds,
                       [commands |-> commands, parent |-> parent,
                        outcome |-> "ok", at |-> 0, kept |-> <<>>]))
  /\ UNCHANGED <<EnablePrefixMatching, args, argv, calledAs, SuggestionsMinimumDistance, pc>>
  /\ UNCHANGED <<groupVars, Changed, execVars, sugVars, compVars>>

TreeInit ==
  /\ commands = [c \in Cmds |-> <<>>]
  /\ parent = [c \in Cmds |-> Nil]
  /\ crashed = FALSE
  /\ EnablePrefixMatching = FALSE
  /\ args = NilArgs
  /\ argv = <<>>
  /\ calledAs = [c \in Cmds |-> <<>>]
  /\ SuggestionsMinimumDistance = 0
  /\ pc = "config"
  /\ res = NoResult
  /\ ExecIdle
  /\ SugIdle
  /\ CompIdle
  /\ cmdFlags = {}
  /\ CommandLine = {}
  /\ Changed = {}
  /\ Annotations = [k \in GroupAnnotations |-> [n \in FlagNames |-> <<>>]]
  /\ DisableFlagParsing = [c \in GroupCmds |-> FALSE]
  /\ nmarks = 0
  /\ panicked = FALSE
  /\ validated = "none"
  /\ verr = NoErr

TreeNext ==
  \/ \E c \in TreeCmds, cmds \in CmdLists : AddCommand(c, cmds)
  \/ \E c \in TreeCmds, cmds \in CmdLists : RemoveCommand(c, cmds)

SpecTree == TreeInit /\ [][TreeNext]_vars

\* ------------------------------------------------ flag completion registry
\* c.Flag(flagName): the flag, or Nil
Flag(name) == IF name \in TreeFlagNames THEN name ELSE Nil

\* flagCompletionMutex.Lock() waits while a goroutine holds the mutex
canLockAlways(g) == TRUE

canLock(g) ==
  flagCompletionMutex.writer = None /\ flagCompletionMutex.readers = {}

\* flagCompletionMutex.RLock() waits while a goroutine holds it for writing
canRLock(g) == flagCompletionMutex.writer = None

\* the other parts keep their state while the registry is used
RegFrame ==
  UNCHANGED <<groupVars, Changed, findVars, execVars, sugVars, treeVars, dirVars, runVars,
              enfVars, viewVars, hookVars>>

\* a goroutine calls RegisterFlagCompletionFunc(name, f) with a function f
\* of its own, or GetFlagCompletionFunc(name)
Call(g, op, name) ==
  /\ goroutines[g].pc = "idle"
  /\ goroutines' = [goroutines EXCEPT ![g] = [pc |-> "flag", op |-> op, flag |-> name,
                                               result |-> NotReturned]]
  /\ UNCHANGED <<flagCompletionFunctions, flagCompletionMutex>>
  /\ RegFrame

\* flag := c.Flag(flagName); if flag == nil { return ... }
LookupFlag(g) ==
  /\ goroutines[g].pc = "flag"
  /\ goroutines' =
       [goroutines EXCEPT ![g] =
          IF Flag(@.flag) # Nil THEN [@ EXCEPT !.pc = "lock"]
          ELSE IF @.op = "register"
          THEN [@ EXCEPT !.pc = "done", !.result = Returned("does not exist", None, FALSE)]
          ELSE [@ EXCEPT !.pc = "done", !.result = Returned("ok", None, FALSE)]]
  /\ UNCHANGED <<flagCompletionFunctions, flagCompletionMutex>>
  /\ RegFrame

\* flagCompletionMutex.Lock()
Lock(g) ==
  /\ goroutines[g].pc = "lock"
  /\ goroutines[g].op = "register"
  /\ canLock(g)
  /\ flagCompletionMutex' = [flagCompletionMutex EXCEPT !.writer = g]
  /\ goroutines' = [goroutines EXCEPT ![g].pc = "check"]
  /\ UNCHANGED flagCompletionFunctions
  /\ RegFrame

\* flagCompletionMutex.RLock()
RLock(g) ==
  /\ goroutines[g].pc = "lock"
  /\ goroutines[g].op = "get"
  /\ canRLock(g)
  /\ flagCompletionMutex' = [flagCompletionMutex EXCEPT !.readers = @ \cup {g}]
  /\ goroutines' = [goroutines EXCEPT ![g].pc = "read"]
  /\ UNCHANGED flagCompletionFunctions
  /\ RegFrame

\* if _, exists := flagCompletionFunctions[flag]; exists { return error }
CheckExists(g) ==
  /\ goroutines[g].pc = "check"
  /\ goroutines' =
       [goroutines EXCEPT ![g] =
          IF flagCompletionFunctions[@.flag] # None
          THEN [@ EXCEPT !.pc = "unlock", !.result = Returned("already registered", None, FALSE)]
          ELSE [@ EXCEPT !.pc = "store"]]
  /\ UNCHANGED <<flagCompletionFunctions, flagCompletionMutex>>
  /\ RegFrame

\* flagCompletionFunctions[flag] = f; return nil
Store(g) ==
  /\ goroutines[g].pc = "store"
  /\ flagCompletionFunctions' =
       [flagCompletionFunctions EXCEPT ![goroutines[g].flag] = g]
  /\ goroutines' = [goroutines EXCEPT ![g].pc = "unlock", ![g].result = Returned("ok", None, FALSE)]
  /\ UNCHANGED flagCompletionMutex
  /\ RegFrame

\* completionFunc, exists := flagCompletionFunctions[flag]
ReadFunc(g) ==
  /\ goroutines[g].pc = "read"
  /\ goroutines' =
       [goroutines EXCEPT ![g].pc = "unlock",
                          ![g].result =
                            Returned("ok", flagCompletionFunctions[goroutines[g].flag],
                                     flagCompletionFunctions[goroutines[g].flag] # None)]
  /\ UNCHANGED <<flagCompletionFunctions, flagCompletionMutex>>
  /\ RegFrame

\* the deferred Unlock() or RUnlock(), and the return
Unlock(g) ==
  /\ goroutines[g].pc = "unlock"
  /\ flagCompletionMutex' =
       [writer |-> IF flagCompletionMutex.writer = g THEN None
                   ELSE flagCompletionMutex.writer,
        readers |-> flagCompletionMutex.readers \ {g}]
  /\ goroutines' = [goroutines EXCEPT ![g].pc = "done"]
  /\ UNCHANGED flagCompletionFunctions
  /\ RegFrame

RegInit ==
  /\ RegIdle
  /\ DirIdle
  /\ RunIdle
  /\ EnfIdle
  /\ ViewIdle
  /\ HookIdle
  /\ commands = [c \in Cmds |-> <<>>]
  /\ EnablePrefixMatching = FALSE
  /\ args = NilArgs
  /\ argv = <<>>
  /\ calledAs = [c \in Cmds |-> <<>>]
  /\ SuggestionsMinimumDistance = 0
  /\ pc = "config"
  /\ res = NoResult
  /\ ExecIdle
  /\ SugIdle
  /\ TreeIdle
  /\ cmdFlags = {}
  /\ CommandLine = {}
  /\ Changed = {}
  /\ Annotations = [k \in GroupAnnotations |-> [n \in FlagNames |-> <<>>]]
  /\ DisableFlagParsing = [c \in GroupCmds |-> FALSE]
  /\ nmarks = 0
  /\ panicked = FALSE
  /\ validated = "none"
  /\ verr = NoErr

RegNext ==
  \/ \E g \in Goroutines, op \in {"register", "get"}, name \in RegNames : Call(g, op, name)
  \/ \E g \in Goroutines : LookupFlag(g)
  \/ \E g \in Goroutines : Lock(g)
  \/ \E g \in Goroutines : RLock(g)
  \/ \E g \in Goroutines : CheckExists(g)
  \/ \E g \in Goroutines : Store(g)
  \/ \E g \in Goroutines : ReadFunc(g)
  \/ \E g \in Goroutines : Unlock(g)

SpecRegistry == RegInit /\ [][RegNext]_vars

\* -------------------------------------------------- completion directives
MaxDirective == 63

\* const ( ShellCompDirectiveError ShellCompDirective = 1 << iota ... )
ShellCompDirectiveError == 2^0

ShellCompDirectiveNoSpace == 2^1

ShellCompDirectiveNoFileComp == 2^2

ShellCompDirectiveFilterExt == 2^3

ShellCompDirectiveKeepOrder == 2^4

shellCompDirectiveMaxValue == 2^5

ShellCompDirectiveDefault == 0

\* string() tests two names the const block does not declare; each is read
\* as the declared name closest to it
ShellCompDirectiveFilterFileExt == ShellCompDirectiveFilterExt

ShellCompDirectiveFilterDirs == ShellCompDirectiveFilterExt

\* a & b
RECURSIVE bitAnd(_, _)
bitAnd(a, b) ==
  IF a = 0 \/ b = 0 THEN 0
  ELSE (a % 2) * (b % 2) + 2 * bitAnd(a \div 2, b \div 2)

\* strings.Join(names, sep), as the pieces of the string it builds
RECURSIVE joinNames(_, _)
joinNames(names, sep) ==
  IF Len(names) = 0 THEN <<>>
  ELSE IF Len(names) = 1 THEN names
  ELSE <<Head(names), sep>> \o joinNames(Tail(names), sep)

\* if d&bit != 0 { directives = append(directives, name) }
appendIfSet(directives, d, bit, name) ==
  IF bitAnd(d, bit) # 0 THEN Append(directives, name) ELSE directives

\* if len(directives) == 0 { directives = append(directives, "ShellCompDirectiveDefault") }
appendDefault(directives) ==
  IF Len(directives) = 0 THEN <<"ShellCompDirectiveDefault">> ELSE directives

directivesOf(d) ==
  appendDefault(
    appendIfSet(
      appendIfSet(
        appendIfSet(
          appendIfSet(
            appendIfSet(
              appendIfSet(<<>>, d, ShellCompDirectiveError, "ShellCompDirectiveError"),
              d, ShellCompDirectiveNoSpace, "ShellCompDirectiveNoSpace"),
            d, ShellCompDirectiveNoFileComp, "ShellCompDirectiveNoFileComp"),
          d, ShellCompDirectiveFilterFileExt, "ShellCompDirectiveFilterFileExt"),
        d, ShellCompDirectiveFilterDirs, "ShellCompDirectiveFilterDirs"),
      d, ShellCompDirectiveKeepOrder, "ShellCompDirectiveKeepOrder"))

\* func (d ShellCompDirective) string() string
string(d) ==
  IF d >= shellCompDirectiveMaxValue
  THEN [unexpected |-> TRUE, value |-> d, names |-> <<>>]
  ELSE [unexpected |-> FALSE, value |-> 0, names |-> joinNames(directivesOf(d), ", ")]

\* directive.string() is computed
String ==
  /\ directiveString = NoString
  /\ directiveString' = string(directive)
  /\ UNCHANGED directive
  /\ UNCHANGED <<groupVars, Changed, findVars, execVars, sugVars, treeVars, regVars, runVars,
                 enfVars, viewVars, hookVars>>

DirInit ==
  /\ directive \in 0..MaxDirective
  /\ directiveString = NoString
  /\ RegIdle
  /\ RunIdle
  /\ EnfIdle
  /\ ViewIdle
  /\ HookIdle
  /\ commands = [c \in Cmds |-> <<>>]
  /\ EnablePrefixMatching = FALSE
  /\ args = NilArgs
  /\ argv = <<>>
  /\ calledAs = [c \in Cmds |-> <<>>]
  /\ SuggestionsMinimumDistance = 0
  /\ pc = "config"
  /\ res = NoResult
  /\ ExecIdle
  /\ SugIdle
  /\ TreeIdle
  /\ cmdFlags = {}
  /\ CommandLine = {}
  /\ Changed = {}
  /\ Annotations = [k \in GroupAnnotations |-> [n \in FlagNames |-> <<>>]]
  /\ DisableFlagParsing = [c \in GroupCmds |-> FALSE]
  /\ nmarks = 0
  /\ panicked = FALSE
  /\ validated = "none"
  /\ verr = NoErr

DirNext == String

SpecDirective == DirInit /\ [][DirNext]_vars

\* --------------------------------------------------- positional arguments
\* the errors of the validators and of execute
NilErr == [kind |-> "nil", at |-> ""]

\* ArbitraryArgs
ArbitraryArgs(a) == NilErr

\* the validators of args.go, as MinimumNArgs(n), MaximumNArgs(n), ExactArgs(n)
\* and RangeArgs(min, max) return them
MinimumNArgs(n, a) ==
  IF Len(a) > n THEN [kind |-> "requires at least", at |-> ""] ELSE NilErr

MaximumNArgs(n, a) ==
  IF Len(a) > 0 THEN [kind |-> "accepts at most", at |-> ""] ELSE NilErr

ExactArgs(n, a) ==
  IF Len(a) # n THEN [kind |-> "accepts", at |-> ""] ELSE NilErr

RangeArgs(min, max, a) ==
  IF Len(a) < min \/ Len(a) > max THEN [kind |-> "accepts between", at |-> ""]
  ELSE NilErr

\* c.Args when it is not nil: a validator and its bounds
Validator(kind, min, max) == [kind |-> kind, min |-> min, max |-> max]

applyArgs(v, a) ==
  CASE v.kind = "MinimumNArgs" -> MinimumNArgs(v.min, a)
    [] v.kind = "MaximumNArgs" -> MaximumNArgs(v.max, a)
    [] v.kind = "ExactArgs" -> ExactArgs(v.min, a)
    [] v.kind = "RangeArgs" -> RangeArgs(v.min, v.max, a)

\* c.ValidateArgs(args)
ValidateArgs(a) ==
  IF Args = NoValidator THEN ArbitraryArgs(a) ELSE applyArgs(Args, a)

\* ------------------------------------------------- the __complete command
activeHelpMarker == <<"_", "a", "c", "t", "i", "v", "e", "H", "e", "l", "p", "_", " ">>

activeHelpGlobalDisable == "0"

\* the test GetActiveHelpConfig makes on the value of the global variable:
\* the global toggle did not already disable active help
activeHelpConfig(activeHelpCfg) == activeHelpCfg # activeHelpGlobalDisable

\* the variable of the program read whatever the global one holds
GetActiveHelpConfigOfProgram(cmd) == Getenv(activeHelpEnvVar(Name(Root(cmd))))

\* GetActiveHelpConfig(cmd): the value of the global variable, replaced by
\* the one of the variable of the program when the test passes
GetActiveHelpConfig(cmd) ==
  LET activeHelpCfg == Getenv(activeHelpGlobalEnvVar)
  IN IF activeHelpConfig(activeHelpCfg)
     THEN Getenv(activeHelpEnvVar(Name(Root(cmd))))
     ELSE activeHelpCfg

\* the tokens of the command line to complete
CompTokens == {tStatus, tSt, tBad, tName, tEmpty}

\* the arguments of a completion request: one of the two names of the
\* command, then the line
CompArgVectors ==
  {<<n>> \o l : n \in {ShellCompRequestCmd, ShellCompNoDescRequestCmd},
                l \in UNION {[1..k -> CompTokens] : k \in 0..2}}

\* what a completion function of the program returns: completions with a
\* description, with the active-help marker, of two lines, with spaces
ValidArgsResults ==
  { NoValidArgs,
    [completions |-> << <<"s", "t", "o", "p", "\t", "h", "a", "l", "t">>,
                        activeHelpMarker \o <<"h", "i">> >>,
     directive |-> ShellCompDirectiveNoFileComp],
    [completions |-> << <<"g", "o", "\n", "x">>, <<" ", "u", "p", " ">> >>,
     directive |-> ShellCompDirectiveNoSpace] }

\* strings.SplitN(s, sep, 2)[0]
beforeFirst(s, sep) == IF Contains(s, sep) THEN SubSeq(s, 1, IndexOf(s, sep)) ELSE s

IsSpace(ch) == ch \in {" ", "\t", "\n"}

\* strings.TrimSpace(s)
RECURSIVE TrimSpace(_)
TrimSpace(s) ==
  IF s = <<>> THEN s
  ELSE IF IsSpace(Head(s)) THEN TrimSpace(Tail(s))
  ELSE IF IsSpace(s[Len(s)]) THEN TrimSpace(SubSeq(s, 1, Len(s) - 1))
  ELSE s

\* the digits of n: fmt's %d of a number that is not negative
RECURSIVE formatInt(_)
formatInt(n) ==
  LET digit == <<"0", "1", "2", "3", "4", "5", "6", "7", "8", "9">>[(n % 10) + 1]
  IN IF n < 10 THEN <<digit>> ELSE Append(formatInt(n \div 10), digit)

\* the loop of Run over the completions: the lines it prints
RECURSIVE printCompletions(_, _, _)
printCompletions(completions, noActiveHelp, noDescriptions) ==
  IF completions = <<>> THEN <<>>
  ELSE IF noActiveHelp /\ HasPrefix(Head(completions), activeHelpMarker)
  THEN printCompletions(Tail(completions), noActiveHelp, noDescriptions)
  ELSE <<TrimSpace(beforeFirst(IF noDescriptions THEN beforeFirst(Head(completions), "\t")
                               ELSE Head(completions), "\n"))>>
       \o printCompletions(Tail(completions), noActiveHelp, noDescriptions)

\* noDescriptions of Run: the command was called by its second name, or the
\* variable of the environment parses as false
noDescriptionsOf(called) ==
  \/ called = ShellCompNoDescRequestCmd
  \/ descriptionsEnv = "false"

\* what getCompletions returns
Completions(finalCmd, completions, d, err) ==
  [finalCmd |-> finalCmd, completions |-> completions, directive |-> d, err |-> err]

\* checkIfFlagCompletion: the flag whose value is being completed, when the
\* last token before the word to complete names a flag that takes a value,
\* and the arguments without that token
checkIfFlagCompletion(finalCmd, finalArgs) ==
  IF /\ finalArgs # <<>>
     /\ HasPrefix(finalArgs[Len(finalArgs)], <<"-", "-">>)
     /\ From(finalArgs[Len(finalArgs)], 2) \in Flags(finalCmd)
     /\ NoOptDefVal(From(finalArgs[Len(finalArgs)], 2)) = ""
  THEN [flag |-> From(finalArgs[Len(finalArgs)], 2),
        args |-> SubSeq(finalArgs, 1, Len(finalArgs) - 1)]
  ELSE [flag |-> Nil, args |-> finalArgs]

\* the names of the subcommands of finalCmd that begin with toComplete
RECURSIVE subCommandNames(_, _)
subCommandNames(cmds, toComplete) ==
  IF cmds = <<>> THEN <<>>
  ELSE IF Head(cmds) # completeCmd /\ HasPrefix(Name(Head(cmds)), toComplete)
  THEN <<Name(Head(cmds))>> \o subCommandNames(Tail(cmds), toComplete)
  ELSE subCommandNames(Tail(cmds), toComplete)

\* the end of getCompletions: the function registered for the flag, or the
\* subcommand names and what the completion function of the program returns
completionsFor(finalCmd, f, toComplete) ==
  IF f.flag # Nil
  THEN Completions(finalCmd, <<>>, ShellCompDirectiveDefault, NoError)
  ELSE Completions(finalCmd,
                   subCommandNames(commands[finalCmd], toComplete)
                     \o validArgsFunction.completions,
                   validArgsFunction.directive, NoError)

\* getCompletions after the flags of finalCmd are parsed with the result p
completionsParsed(finalCmd, f, p, toComplete) ==
  IF p.err # NoError
  THEN Completions(finalCmd, <<>>, ShellCompDirectiveDefault,
                   [kind |-> "Error while parsing flag", arg |-> p.err.arg])
  ELSE completionsFor(finalCmd, f, toComplete)

completionsChecked(finalCmd, f, toComplete) ==
  completionsParsed(finalCmd, f, ParseFlags(finalCmd, f.args), toComplete)

\* getCompletions after the resolution r of the trimmed arguments.  No token
\* of the model sets a help or version flag.
completionsResolved(r, toComplete) ==
  IF r.err # NoError
  THEN Completions(completeCmd, <<>>, ShellCompDirectiveDefault,
                   [kind |-> "unable to find a command", arg |-> <<>>])
  ELSE completionsChecked(r.cmd, checkIfFlagCompletion(r.cmd, r.args), toComplete)

\* cmd.getCompletions(a), after the root is prepared
getCompletions(a) ==
  completionsResolved(resolve(SubSeq(a, 1, Len(a) - 1)), a[Len(a)])

\* the lines Run writes to standard output for g, the result of getCompletions
runOutput(g, called) ==
  Append(printCompletions(g.completions, GetActiveHelpConfig(g.finalCmd) = activeHelpGlobalDisable,
                          noDescriptionsOf(called)),
         <<":">> \o formatInt(g.directive))

\* the diagnostics Run writes to standard error
runDiagnostics(g) ==
  (IF g.err # NoError THEN <<g.err.kind>> ELSE <<>>)
    \o <<"Completion ended with directive">>

\* the other parts keep their state during a completion request
RunFrame ==
  UNCHANGED <<groupVars, Changed, EnablePrefixMatching, args, argv, execVars, sugVars,
              regVars, dirVars, enfVars, viewVars, hookVars, helpFlagBool, environ,
              descriptionsEnv, validArgsFunction>>

\* initCompletionCmd: c.AddCommand(completeCmd)
InitCompletionCmdAdd ==
  /\ pc = "ready"
  /\ commands' = addLoop("root", <<completeCmd>>, 1, treeState).commands
  /\ parent' = addLoop("root", <<completeCmd>>, 1, treeState).parent
  /\ pc' = "added"
  /\ UNCHANGED <<calledAs, SuggestionsMinimumDistance, res, stdout, stderr>>
  /\ UNCHANGED crashed
  /\ RunFrame

\* the tree after root.RemoveCommand(completeCmd)
completeCmdRemoved ==
  removeLoop("root", commands["root"], <<completeCmd>>,
             [commands |-> commands, parent |-> parent,
              outcome |-> "ok", at |-> 0, kept |-> <<>>])

\* initCompletionCmd after Find returned r: the command is removed again
\* unless the arguments resolve to it
initFound(r) ==
  /\ calledAs' = r.called
  /\ SuggestionsMinimumDistance' = findSuggestionDistance(r.err, SuggestionsMinimumDistance)
  /\ IF r.err # NoError \/ Name(r.cmd) # ShellCompRequestCmd
     THEN commands' = completeCmdRemoved.commands /\ parent' = completeCmdRemoved.parent
     ELSE UNCHANGED <<commands, parent>>

\* initCompletionCmd: subCmd, _, err := c.Find(args) and what follows
InitCompletionCmdFind ==
  /\ pc = "added"
  /\ initFound(found(innerfind("root", args.v, calledAs, <<>>)))
  /\ pc' = "init"
  /\ UNCHANGED <<res, stdout, stderr>>
  /\ UNCHANGED crashed
  /\ RunFrame

\* what ExecuteC has done when it returns or calls Run
completeResult(r, ran, err) ==
  [op |-> "complete", resolved |-> IF r.err = NoError THEN r.cmd ELSE Nil,
   args |-> r.args, ran |-> ran, err |-> err, compErr |-> NoError,
   called |-> IF r.err = NoError /\ r.cmd # Nil THEN r.called[r.cmd] ELSE <<>>]

\* ExecuteC from the resolution r to the call of Run on the completion
\* command: execute returns after GetBool("help") gave no error and Println
\* wrote to standard output; else the arguments are validated with
\* MinimumNArgs(1)
executeComplete(r) ==
  /\ calledAs' = r.called
  /\ SuggestionsMinimumDistance' =
       IF TraverseChildren THEN SuggestionsMinimumDistance
       ELSE findSuggestionDistance(r.err, SuggestionsMinimumDistance)
  /\ IF r.err # NoError \/ r.cmd # completeCmd
     THEN /\ res' = completeResult(r, FALSE, r.err)
          /\ pc' = "done"
          /\ UNCHANGED stdout
     ELSE IF helpFlagBool
     THEN /\ res' = completeResult(r, FALSE, NoError)
          /\ pc' = "done"
          /\ stdout' = Append(stdout, "\"help\" flag declared as non-bool")
     ELSE IF MinimumNArgs(1, r.args) # NilErr
     THEN /\ res' = completeResult(r, FALSE,
                                   [kind |-> "requires at least 1 arg(s)", arg |-> <<>>])
          /\ pc' = "done"
          /\ UNCHANGED stdout
     ELSE /\ res' = completeResult(r, TRUE, NoError)
          /\ pc' = "run"
          /\ UNCHANGED stdout

\* ExecuteC resolves the arguments and executes the command found
ExecuteComplete ==
  /\ pc = "init"
  /\ executeComplete(resolve(args.v))
  /\ UNCHANGED <<commands, parent, stderr>>
  /\ UNCHANGED crashed
  /\ RunFrame

\* getCompletions: args[len(args)-1] is out of range when Run got no
\* argument; else, under Find, the completion command is removed from a root
\* that has no other child
GetCompletionsRoot ==
  /\ pc = "run"
  /\ IF res.args = <<>>
     THEN crashed' = TRUE /\ pc' = "done" /\ UNCHANGED <<commands, parent>>
     ELSE /\ IF ~TraverseChildren /\ Len(commands["root"]) = 1
             THEN /\ commands' = completeCmdRemoved.commands
                  /\ parent' = completeCmdRemoved.parent
             ELSE UNCHANGED <<commands, parent>>
          /\ pc' = "resolve"
          /\ UNCHANGED crashed
  /\ UNCHANGED <<calledAs, SuggestionsMinimumDistance, res, stdout, stderr>>
  /\ RunFrame

\* the rest of Run, with g the result of getCompletions
ran(g) ==
  /\ stdout' = stdout \o runOutput(g, res.called)
  /\ stderr' = stderr \o runDiagnostics(g)
  /\ res' = [res EXCEPT !.compErr = g.err]

Run ==
  /\ pc = "resolve"
  /\ ran(getCompletions(res.args))
  /\ pc' = "done"
  /\ UNCHANGED <<commands, parent, calledAs, SuggestionsMinimumDistance>>
  /\ UNCHANGED crashed
  /\ RunFrame

CompleteTrees ==
  { [c \in Cmds |-> IF c = "root" THEN <<"status", "start">>
                    ELSE IF c = "status" THEN <<"sub">> ELSE <<>>],
    [c \in Cmds |-> <<>>] }

CompleteInit ==
  /\ commands \in CompleteTrees
  /\ parent = ParentsOf(commands)
  /\ crashed = FALSE
  /\ EnablePrefixMatching = FALSE
  /\ args = NilArgs
  /\ argv = <<>>
  /\ calledAs = [c \in Cmds |-> <<>>]
  /\ SuggestionsMinimumDistance = 0
  /\ pc = "config"
  /\ res = NoResult
  /\ TraverseChildren \in BOOLEAN
  /\ flagErrorFunc = [c \in Cmds |-> FALSE]
  /\ SugIdle
  /\ RegIdle
  /\ DirIdle
  /\ helpFlagBool \in BOOLEAN
  /\ environ \in [EnvVars -> EnvValues]
  /\ descriptionsEnv \in {"", "true", "false"}
  /\ validArgsFunction \in ValidArgsResults
  /\ stdout = <<>>
  /\ stderr = <<>>
  /\ EnfIdle
  /\ ViewIdle
  /\ HookIdle
  /\ cmdFlags = {}
  /\ CommandLine = {}
  /\ Changed = {}
  /\ Annotations = [k \in GroupAnnotations |-> [n \in FlagNames |-> <<>>]]
  /\ DisableFlagParsing = [c \in GroupCmds |-> FALSE]
  /\ nmarks = 0
  /\ panicked = FALSE
  /\ validated = "none"
  /\ verr = NoErr

CompleteNext ==
  \/ pc = "config" /\ \E a \in CompArgVectors : SetArgs(a)
  \/ InitCompletionCmdAdd
  \/ InitCompletionCmdFind
  \/ ExecuteComplete
  \/ GetCompletionsRoot
  \/ Run

SpecComplete == CompleteInit /\ [][CompleteNext]_vars

\* ---------------------------------------- flag groups at completion time
\* strings.Split(flagList, " ") as the set of the names
namesOf(flagList) == Range(Split(flagList))

\* the first loop of enforceFlagGroupsForCompletion: the flags of every
\* required-together group with a flag set are marked required
togetherMarks(groupStatus) ==
  UNION {namesOf(g) : g \in {k \in DOMAIN groupStatus : setOf(groupStatus[k]) # {}}}

\* a second loop that marks the flags of a one-required group with a flag set
oneRequiredMarksWhenSet(oneRequiredGroupStatus) ==
  UNION {namesOf(g) : g \in {k \in DOMAIN oneRequiredGroupStatus :
                               setOf(oneRequiredGroupStatus[k]) # {}}}

\* the second loop: the flags of every one-required group with no flag set
\* are marked required
oneRequiredMarks(oneRequiredGroupStatus) ==
  UNION {namesOf(g) : g \in {k \in DOMAIN oneRequiredGroupStatus :
                               setOf(oneRequiredGroupStatus[k]) = {}}}

\* a third loop that hides every flag of a group with a flag set
exclusiveHidesAll(mutuallyExclusiveGroupStatus) ==
  UNION {namesOf(g) : g \in {k \in DOMAIN mutuallyExclusiveGroupStatus :
                               setOf(mutuallyExclusiveGroupStatus[k]) # {}}}

\* the third loop: for every flag set in a mutually exclusive group, the
\* other flags of the group are hidden
exclusiveHides(mutuallyExclusiveGroupStatus) ==
  UNION {UNION {namesOf(g) \ {flagName} :
                  flagName \in setOf(mutuallyExclusiveGroupStatus[g])} :
           g \in DOMAIN mutuallyExclusiveGroupStatus}

\* c.Flags().VisitAll(...) for one annotation: the status of the groups
completionStatus(c, annotation) ==
  visitAll(Flags(c), SortStrings(Flags(c)), annotation, EmptyStatus)

\* c.enforceFlagGroupsForCompletion(): MarkFlagRequired sets the annotation
\* of a flag of c.Flags(), Lookup finds the flag to hide
enforceFlagGroupsForCompletion(c) ==
  /\ ~panicked
  /\ enforced = "none"
  /\ enforced' = c
  /\ IF DisableFlagParsing[c]
     THEN UNCHANGED <<required, hiddenFlags>>
     ELSE /\ required' =
               required
                 \cup (togetherMarks(completionStatus(c, requiredAsGroupAnnotation)) \cap Flags(c))
                 \cup (oneRequiredMarks(completionStatus(c, oneRequiredAnnotation)) \cap Flags(c))
          /\ hiddenFlags' =
               hiddenFlags
                 \cup exclusiveHides(completionStatus(c, mutuallyExclusiveAnnotation))
  /\ UNCHANGED <<groupVars, Changed, findVars, execVars, sugVars, treeVars, regVars, dirVars,
                 runVars, viewVars, hookVars>>

EnforceInit ==
  /\ cmdFlags = {}
  /\ CommandLine = {}
  /\ Changed = {}
  /\ Annotations = [k \in GroupAnnotations |-> [n \in FlagNames |-> <<>>]]
  /\ DisableFlagParsing \in {[c \in GroupCmds |-> FALSE],
                             [c \in GroupCmds |-> c = "parent"]}
  /\ nmarks = 0
  /\ panicked = FALSE
  /\ validated = "none"
  /\ verr = NoErr
  /\ FindIdle

\* the program declares its flags and groups, the flags are parsed, and the
\* completion runs the pass on the command resolved
EnforceNext ==
  \/ enforced = "none" /\ \E n \in FlagNames : AddFlag(n)
  \/ enforced = "none" /\ \E n \in FlagNames : SetFlag(n)
  \/ enforced = "none" /\ \E c \in GroupCmds, names \in MarkArgs :
                            MarkFlagsRequiredTogether(c, names)
  \/ enforced = "none" /\ \E c \in GroupCmds, names \in MarkArgs :
                            MarkFlagsOneRequired(c, names)
  \/ enforced = "none" /\ \E c \in GroupCmds, names \in MarkArgs :
                            MarkFlagsMutuallyExclusive(c, names)
  \/ \E c \in GroupCmds : enforceFlagGroupsForCompletion(c)

SpecEnforce == EnforceInit /\ [][EnforceNext]_vars

\* -------------------------------------------------------------- flag views
\* a flag object: its name, and the declaration that created it
FlagObject(name, owner, persistent) ==
  [name |-> name, owner |-> owner, persistent |-> persistent]

ViewFlagNames == {"verbose", "x"}

NilFlag == FlagObject("", Nil, FALSE)

\* fs.Lookup(name)
Lookup(fs, name) ==
  IF \E f \in fs : f.name = name THEN CHOOSE f \in fs : f.name = name ELSE NilFlag

\* a flag set being built, and whether AddFlag has panicked
Building(fs, panic) == [set |-> fs, panic |-> panic]

\* fs.AddFlag(f) panics when the set has a flag of the name
addFlag(st, f) ==
  IF Lookup(st.set, f.name) # NilFlag THEN [st EXCEPT !.panic = TRUE]
  ELSE [st EXCEPT !.set = @ \cup {f}]

\* fs.AddFlagSet(newSet): the flags whose names fs does not hold are added
AddFlagSet(fs, newSet) ==
  fs \cup {f \in newSet : Lookup(fs, f.name) = NilFlag}

\* VisitParents: the persistent flags of the parents are added to pp, the
\* nearest parent first
RECURSIVE visitParents(_, _, _)
visitParents(c, pp, fuel) ==
  IF ~HasParent(c) \/ fuel = 0 THEN pp
  ELSE visitParents(Parent(c), AddFlagSet(pp, pflags[Parent(c)]), fuel - 1)

\* c.parentsPflags after updateParentsPflags
updatedParentsPflags(c) == visitParents(c, parentsPflags[c], Cardinality(ViewCmds))

\* c.flags after mergePersistentFlags
mergedFlags(c) ==
  AddFlagSet(AddFlagSet(cflags[c], pflags[c]), updatedParentsPflags(c))

\* addToLocal without the test of c.lflags.Lookup
addToLocalNoLookup(st, f, pp) ==
  IF f # Lookup(pp, f.name) THEN addFlag(st, f) ELSE st

\* addToLocal of LocalFlags, with pp the parentsPflags of the command
addToLocal(st, f, pp) ==
  IF Lookup(st.set, f.name) = NilFlag /\ f # Lookup(pp, f.name)
  THEN addFlag(st, f)
  ELSE st

\* fs.VisitAll(addToLocal)
RECURSIVE visitAllLocal(_, _, _)
visitAllLocal(fs, st, pp) ==
  IF fs = {} THEN st
  ELSE visitAllLocal(fs \ {CHOOSE f \in fs : TRUE},
                     addToLocal(st, CHOOSE f \in fs : TRUE, pp), pp)

\* c.lflags when LocalFlags returns, with pp the updated parentsPflags
localFlagsWith(c, pp) ==
  visitAllLocal(pflags[c],
                visitAllLocal(AddFlagSet(AddFlagSet(cflags[c], pflags[c]), pp),
                              Building(lflags[c], FALSE), pp),
                pp)

localFlags(c) == localFlagsWith(c, updatedParentsPflags(c))

\* c.iflags when InheritedFlags returns: the flags of parentsPflags whose
\* names neither c.iflags nor the local view holds
inheritedFlagsWith(c, pp, local) ==
  iflags[c] \cup {f \in pp : /\ Lookup(iflags[c], f.name) = NilFlag
                             /\ Lookup(local, f.name) = NilFlag}

inheritedFlags(c) == inheritedFlagsWith(c, updatedParentsPflags(c), localFlags(c).set)

\* the commands whose views a flag registered on a can change
RECURSIVE IsAncestorOrSelf(_, _, _)
IsAncestorOrSelf(a, c, fuel) ==
  \/ a = c
  \/ fuel > 0 /\ HasParent(c) /\ IsAncestorOrSelf(a, Parent(c), fuel - 1)

\* one more call of a view; the first one since a registration is recorded
calledView(record, view) ==
  [calls |-> IF record.calls < 2 THEN record.calls + 1 ELSE 2,
   first |-> IF record.calls = 0 THEN view ELSE record.first]

registered(c) ==
  viewCalls' = [d \in ViewCmds |->
                  IF IsAncestorOrSelf(c, d, Cardinality(ViewCmds))
                  THEN [local |-> NoCalls, inherited |-> NoCalls]
                  ELSE viewCalls[d]]

\* the flags declared so far: every declaration creates one flag object
declared ==
  UNION {pflags[c] \cup {f \in cflags[c] : f.owner = c /\ ~f.persistent} : c \in ViewCmds}

\* declarations explored
MaxFlags == 2

ViewFrame ==
  UNCHANGED <<groupVars, Changed, findVars, execVars, sugVars, treeVars, regVars, dirVars,
              runVars, enfVars, hookVars>>

\* c.Flags().Bool(name, ...): a flag of the command alone
DeclareFlag(c, name) ==
  /\ ~flagPanic
  /\ Cardinality(declared) < MaxFlags
  /\ Lookup(cflags[c], name) = NilFlag
  /\ cflags' = [cflags EXCEPT ![c] = @ \cup {FlagObject(name, c, FALSE)}]
  /\ registered(c)
  /\ UNCHANGED <<pflags, lflags, iflags, parentsPflags, flagPanic>>
  /\ ViewFrame

\* c.PersistentFlags().Bool(name, ...)
DeclarePersistentFlag(c, name) ==
  /\ ~flagPanic
  /\ Cardinality(declared) < MaxFlags
  /\ Lookup(pflags[c], name) = NilFlag
  /\ pflags' = [pflags EXCEPT ![c] = @ \cup {FlagObject(name, c, TRUE)}]
  /\ registered(c)
  /\ UNCHANGED <<cflags, lflags, iflags, parentsPflags, flagPanic>>
  /\ ViewFrame

\* the assignments of LocalFlags, with pp the updated parentsPflags and
\* local the view built
setLocalFlags(c, pp, local) ==
  /\ parentsPflags' = [parentsPflags EXCEPT ![c] = pp]
  /\ cflags' = [cflags EXCEPT ![c] = AddFlagSet(AddFlagSet(@, pflags[c]), pp)]
  /\ lflags' = [lflags EXCEPT ![c] = local.set]
  /\ flagPanic' = local.panic

localCalled(c, pp, local) ==
  /\ setLocalFlags(c, pp, local)
  /\ viewCalls' = [viewCalls EXCEPT ![c].local = calledView(@, local.set)]
  /\ UNCHANGED <<pflags, iflags>>

inheritedCalled(c, pp, local, inherited) ==
  /\ setLocalFlags(c, pp, local)
  /\ iflags' = [iflags EXCEPT ![c] = IF local.panic THEN @ ELSE inherited]
  /\ viewCalls' = [viewCalls EXCEPT ![c].local = calledView(@, local.set),
                                    ![c].inherited = calledView(@, inherited)]
  /\ UNCHANGED pflags

\* c.LocalFlags()
LocalFlags(c) ==
  /\ ~flagPanic
  /\ localCalled(c, updatedParentsPflags(c), localFlags(c))
  /\ ViewFrame

\* c.InheritedFlags(), which calls c.LocalFlags()
InheritedFlags(c) ==
  /\ ~flagPanic
  /\ inheritedCalled(c, updatedParentsPflags(c), localFlags(c), inheritedFlags(c))
  /\ ViewFrame

ViewTree ==
  [c \in Cmds |-> IF c = "root" THEN <<"status">>
                  ELSE IF c = "status" THEN <<"sub">> ELSE <<>>]

ViewInit ==
  /\ ViewIdle
  /\ HookIdle
  /\ commands = ViewTree
  /\ parent = ParentsOf(ViewTree)
  /\ crashed = FALSE
  /\ EnablePrefixMatching = FALSE
  /\ args = NilArgs
  /\ argv = <<>>
  /\ calledAs = [c \in Cmds |-> <<>>]
  /\ SuggestionsMinimumDistance = 0
  /\ pc = "config"
  /\ res = NoResult
  /\ ExecIdle
  /\ SugIdle
  /\ RegIdle
  /\ DirIdle
  /\ RunIdle
  /\ EnfIdle
  /\ cmdFlags = {}
  /\ CommandLine = {}
  /\ Changed = {}
  /\ Annotations = [k \in GroupAnnotations |-> [n \in FlagNames |-> <<>>]]
  /\ DisableFlagParsing = [c \in GroupCmds |-> FALSE]
  /\ nmarks = 0
  /\ panicked = FALSE
  /\ validated = "none"
  /\ verr = NoErr

ViewNext ==
  \/ \E c \in ViewCmds, name \in ViewFlagNames : DeclareFlag(c, name)
  \/ \E c \in ViewCmds, name \in ViewFlagNames : DeclarePersistentFlag(c, name)
  \/ \E c \in ViewCmds : LocalFlags(c)
  \/ \E c \in ViewCmds : InheritedFlags(c)

SpecViews == ViewInit /\ [][ViewNext]_vars

\* ------------------------------------------------------------- run hooks
\* the stages of a run, in the order the Command type documents
HookStages == <<"PersistentPreRun", "PreRun", "Run", "PostRun", "PersistentPostRun">>

\* the parent of a command of the flag groups
GroupParent(c) == IF c = "child" THEN "parent" ELSE Nil

\* the errors of execute
ErrHelp == [kind |-> "flag: help requested", at |-> ""]
HookErr(p, stage) == [kind |-> "hook", at |-> stage]

\* the flags InitDefaultHelpFlag and InitDefaultVersionFlag declare
tHelp == <<"h", "e", "l", "p">>
tVersion == <<"v", "e", "r", "s", "i", "o", "n">>

\* c.SilenceErrors and c.SilenceUsage: the zero values
SilenceErrors(c) == FALSE
SilenceUsage(c) == FALSE

\* the state of execute: what it has printed, the hooks it has invoked, and
\* the error it returned once it has returned
Executing == [returned |-> FALSE, err |-> NilErr, invoked |-> <<>>, out |-> <<>>]

return(st, err) == [st EXCEPT !.returned = TRUE, !.err = err]

\* one stage of command p, run for c: the error-returning form when it is
\* set, the plain form otherwise
invoke(st, p, stage, form) ==
  [st EXCEPT !.invoked = Append(@, [cmd |-> p, stage |-> stage, form |-> form])]

callStage(st, p, stage) ==
  IF st.returned THEN st
  ELSE IF hooks[p][stage].e
  THEN IF <<p, stage>> \in failing
       THEN return(invoke(st, p, stage, "E"), HookErr(p, stage))
       ELSE invoke(st, p, stage, "E")
  ELSE IF hooks[p][stage].plain THEN invoke(st, p, stage, "plain")
  ELSE st

\* c.Run is called when c.RunE is nil
callRun(st, c) ==
  IF st.returned THEN st
  ELSE IF hooks[c]["Run"].e THEN callStage(st, c, "Run")
  ELSE invoke(st, c, "Run", "plain")

\* c and its parents, c first
RECURSIVE parentsFrom(_)
parentsFrom(c) == IF c = Nil THEN <<>> ELSE <<c>> \o parentsFrom(GroupParent(c))

Reverse(s) == [i \in 1..Len(s) |-> s[Len(s) + 1 - i]]

\* the loops over the persistent hooks: the first command that has the hook
\* ends the loop unless EnableTraverseRunHooks is set
RECURSIVE persistentLoop(_, _, _)
persistentLoop(st, ps, stage) ==
  IF st.returned \/ ps = <<>> THEN st
  ELSE IF (hooks[Head(ps)][stage].e \/ hooks[Head(ps)][stage].plain)
          /\ ~EnableTraverseRunHooks
  THEN callStage(st, Head(ps), stage)
  ELSE persistentLoop(callStage(st, Head(ps), stage), Tail(ps), stage)

\* c.Runnable()
IsRunnable(c) == hooks[c]["Run"].plain \/ hooks[c]["Run"].e

\* c.ValidateRequiredFlags(): the flags of c that carry the required
\* annotation and are not set
missingFlagNames(c) == (Flags(c) \cap required) \ Changed

ValidateRequiredFlags(c) ==
  IF DisableFlagParsing[c] THEN NilErr
  ELSE IF missingFlagNames(c) # {} THEN [kind |-> "required flag(s) not set", at |-> ""]
  ELSE NilErr

\* the error of c.ValidateFlagGroups()
flagGroupsErr(e) == IF e = NoErr THEN NilErr ELSE [kind |-> "flag groups", at |-> e.kind]

\* execute from the pre-run hooks of the parents on
runStages(st, c) ==
  callStage(persistentLoop(st, IF EnableTraverseRunHooks THEN Reverse(parentsFrom(c))
                                ELSE parentsFrom(c),
                           "PersistentPreRun"),
            c, "PreRun")

validatedFlags(st, c) ==
  IF st.returned THEN st
  ELSE IF ValidateRequiredFlags(c) # NilErr THEN return(st, ValidateRequiredFlags(c))
  ELSE IF flagGroupsErr(ValidateFlagGroups(c)) # NilErr
  THEN return(st, flagGroupsErr(ValidateFlagGroups(c)))
  ELSE st

ranStages(st, c) ==
  persistentLoop(callStage(callRun(st, c), c, "PostRun"), parentsFrom(c),
                 "PersistentPostRun")

returnNil(st) == IF st.returned THEN st ELSE return(st, NilErr)

\* GetBool("help") returns no error exactly when the help flag is a bool
\* flag; its value is then the flag's, and false otherwise
helpVal == helpFlagBool /\ tHelp \in Changed

versionVal == tVersion \in Changed

print(st, line) == [st EXCEPT !.out = Append(@, line)]

\* the error of GetBool("help")
getBoolErr ==
  IF helpFlagBool THEN NilErr ELSE [kind |-> "flag accessed but not of type bool", at |-> ""]

\* the test `if err == nil` of the error of GetBool("help")
helpErrIsNil == getBoolErr = NilErr

\* c.execute(a), a holding no flag: ParseFlags(a) sets nothing and returns nil
executeRun(c, a) ==
  IF helpErrIsNil
  THEN return(print(Executing, "\"help\" flag declared as non-bool"), getBoolErr)
  ELSE IF helpVal THEN return(Executing, ErrHelp)
  ELSE IF Version # "" /\ versionVal THEN return(print(Executing, Version), NilErr)
  ELSE IF ~IsRunnable(c) THEN return(Executing, ErrHelp)
  ELSE IF ValidateArgs(a) # NilErr THEN return(Executing, ValidateArgs(a))
  ELSE returnNil(ranStages(validatedFlags(runStages(Executing, c), c), c))

\* what ExecuteC does with x, the state execute(a) of cmd left
executeCReturn(cmd, x) ==
  [err |-> IF x.err = ErrHelp THEN NilErr ELSE x.err,
   invoked |-> x.invoked,
   help |-> x.err = ErrHelp,
   stdout |-> x.out \o (IF x.err \notin {NilErr, ErrHelp}
                           /\ ~SilenceUsage(cmd) /\ ~SilenceUsage("parent")
                        THEN <<"usage">> ELSE <<>>),
   stderr |-> IF x.err \notin {NilErr, ErrHelp}
                 /\ ~SilenceErrors(cmd) /\ ~SilenceErrors("parent")
              THEN <<"error">> ELSE <<>>]

HookFrame ==
  UNCHANGED <<groupVars, Changed, commands, EnablePrefixMatching, args, calledAs,
              SuggestionsMinimumDistance, res, execVars, sugVars, treeVars, regVars,
              dirVars, enfVars, viewVars, helpFlagBool, environ, descriptionsEnv,
              validArgsFunction>>

wrote(r) ==
  /\ execErr' = r.err
  /\ invoked' = r.invoked
  /\ helpShown' = r.help
  /\ stdout' = stdout \o r.stdout
  /\ stderr' = stderr \o r.stderr

\* parent.ExecuteC() when the arguments resolve to cmd and leave argv
ExecuteHooks(cmd) ==
  /\ pc = "config"
  /\ resolvedCmd' = cmd
  /\ wrote(executeCReturn(cmd, executeRun(cmd, argv)))
  /\ pc' = "done"
  /\ UNCHANGED <<argv, hooks, failing, EnableTraverseRunHooks, Args, Version>>
  /\ HookFrame

\* the hooks explored: the forms set on every stage
HookForms == {Hook(plain, e) : plain \in BOOLEAN, e \in BOOLEAN}

\* the hooks of the parent: its persistent hooks only, both in the form h
ParentHooks(h) ==
  [st \in StageNames |-> IF st \in {"PersistentPreRun", "PersistentPostRun"} THEN h
                         ELSE NoHook]

\* the hooks that can return an error
HookIds ==
  {<<"child", st>> : st \in StageNames}
    \cup {<<"parent", "PersistentPreRun">>, <<"parent", "PersistentPostRun">>}

\* the group "a b" of flags required together
TogetherAB ==
  [k \in GroupAnnotations |->
     [n \in FlagNames |->
        IF k = requiredAsGroupAnnotation /\ n \in {<<"a">>, <<"b">>}
        THEN <<Join(<<<<"a">>, <<"b">>>>)>> ELSE <<>>]]

\* the state every run starts from: the flags are declared on both commands
\* and on flag.CommandLine, a and b are required together, one argument is given
HookBase ==
  /\ cmdFlags = FlagNames
  /\ CommandLine = FlagNames
  /\ Annotations = TogetherAB
  /\ DisableFlagParsing = [c \in GroupCmds |-> FALSE]
  /\ nmarks = 0
  /\ panicked = FALSE
  /\ validated = "none"
  /\ verr = NoErr
  /\ commands = [c \in Cmds |-> <<>>]
  /\ EnablePrefixMatching = FALSE
  /\ args = NilArgs
  /\ argv = <<tX>>
  /\ calledAs = [c \in Cmds |-> <<>>]
  /\ SuggestionsMinimumDistance = 0
  /\ pc = "config"
  /\ res = NoResult
  /\ ExecIdle
  /\ SugIdle
  /\ TreeIdle
  /\ RegIdle
  /\ DirIdle
  /\ hiddenFlags = {}
  /\ enforced = "none"
  /\ ViewIdle
  /\ environ = NoEnviron
  /\ descriptionsEnv = ""
  /\ validArgsFunction = NoValidArgs
  /\ stdout = <<>>
  /\ stderr = <<>>
  /\ resolvedCmd = Nil
  /\ invoked = <<>>
  /\ helpShown = FALSE
  /\ execErr = NoExecErr
  /\ helpFlagBool \in BOOLEAN
  /\ EnableTraverseRunHooks \in BOOLEAN

\* every choice of forms on the child, no hook failing, flags and arguments valid
HookInitForms ==
  /\ HookBase
  /\ \E h \in [StageNames -> HookForms], ph \in {NoHook, Hook(TRUE, FALSE), Hook(FALSE, TRUE)} :
       hooks = [c \in GroupCmds |-> IF c = "child" THEN h ELSE ParentHooks(ph)]
  /\ failing = {}
  /\ Changed \in {{}, {tHelp}}
  /\ required = {}
  /\ Args = NoValidator
  /\ Version = ""

\* the error-returning forms, up to two of them failing, with flags and
\* arguments valid or not
HookInitErrors ==
  /\ HookBase
  /\ \E run \in {NoHook, Hook(FALSE, TRUE)}, ph \in {NoHook, Hook(FALSE, TRUE)} :
       hooks = [c \in GroupCmds |->
                  IF c = "child"
                  THEN [st \in StageNames |-> IF st = "Run" THEN run ELSE Hook(FALSE, TRUE)]
                  ELSE ParentHooks(ph)]
  /\ failing \in {f \in SUBSET HookIds : Cardinality(f) <= 2}
  /\ Changed \in {{}, {<<"a">>}, {tHelp}, {tVersion}}
  /\ required \in {{}, {<<"c">>}}
  /\ Args \in {NoValidator, Validator("ExactArgs", 0, 0)}
  /\ Version \in {"", "1.0"}

HookInit == HookInitForms \/ HookInitErrors

HookNext == \E cmd \in GroupCmds : ExecuteHooks(cmd)

SpecHooks == HookInit /\ [][HookNext]_vars

\* -------------------------------------------- positional arguments: the calls
\* the largest bound given to a validator
MaxN == 2

Validators ==
  {Validator(k, n, n) : k \in {"MinimumNArgs", "MaximumNArgs", "ExactArgs"}, n \in 0..MaxN}
    \cup {Validator("RangeArgs", min, max) : min \in 0..MaxN, max \in 0..MaxN}

\* c.Args(c, args) with the validator and the arguments of the state
CallArgs ==
  /\ pc = "ready"
  /\ execErr' = ValidateArgs(argv)
  /\ pc' = "done"
  /\ UNCHANGED <<argv, hooks, failing, EnableTraverseRunHooks, Args, Version, resolvedCmd,
                 invoked, helpShown, stdout, stderr>>
  /\ HookFrame

\* the command is given its validator
SetValidator(v) ==
  /\ pc = "config"
  /\ Args' = v
  /\ pc' = "ready"
  /\ UNCHANGED <<argv, hooks, failing, EnableTraverseRunHooks, Version, resolvedCmd,
                 invoked, helpShown, execErr, stdout, stderr>>
  /\ HookFrame

ArgsInit ==
  /\ argv \in UNION {[1..n -> {tX}] : n \in 0..MaxArgs}
  /\ cmdFlags = {}
  /\ CommandLine = {}
  /\ Changed = {}
  /\ Annotations = [k \in GroupAnnotations |-> [n \in FlagNames |-> <<>>]]
  /\ DisableFlagParsing = [c \in GroupCmds |-> FALSE]
  /\ nmarks = 0
  /\ panicked = FALSE
  /\ validated = "none"
  /\ verr = NoErr
  /\ commands = [c \in Cmds |-> <<>>]
  /\ EnablePrefixMatching = FALSE
  /\ args = NilArgs
  /\ calledAs = [c \in Cmds |-> <<>>]
  /\ SuggestionsMinimumDistance = 0
  /\ pc = "config"
  /\ res = NoResult
  /\ OtherIdle

ArgsNext ==
  \/ \E v \in Validators : SetValidator(v)
  \/ CallArgs

SpecArgs == ArgsInit /\ [][ArgsNext]_vars

\* ================================================================ claims
\* ------------------------------------------------- flag groups: C1 .. C4
\* the group signatures the flags of c carry under one annotation
DeclaredGroups(c, annotation) ==
  UNION {Range(Annotations[annotation][n]) : n \in Flags(c)}

Members(group) == Range(Split(group))

\* the groups whose members are all present in the flag view of c
PresentGroups(c, annotation) ==
  {g \in DeclaredGroups(c, annotation) : Members(g) \subseteq Flags(c)}

ChangedOf(group) == Members(group) \cap Changed
UnchangedOf(group) == Members(group) \ Changed

BrokenTogether(c) ==
  {g \in PresentGroups(c, requiredAsGroupAnnotation) :
     ChangedOf(g) # {} /\ UnchangedOf(g) # {}}

BrokenOneRequired(c) ==
  {g \in PresentGroups(c, oneRequiredAnnotation) : ChangedOf(g) = {}}

BrokenExclusive(c) ==
  {g \in PresentGroups(c, mutuallyExclusiveAnnotation) : Cardinality(ChangedOf(g)) >= 2}

ValidatedParsing == validated # "none" /\ ~DisableFlagParsing[validated]

\* C1: with flag parsing enabled, ValidateFlagGroups returns a
\* required-together error exactly when a required-together group with all
\* members present has a changed and an unchanged member, and the error names
\* the unchanged members of that group in lexical order.
C1_RequiredTogether ==
  ValidatedParsing =>
    /\ (verr.kind = "required") <=> (BrokenTogether(validated) # {})
    /\ verr.kind = "required" =>
         /\ verr.group \in BrokenTogether(validated)
         /\ verr.flags = SortStrings(UnchangedOf(verr.group))

\* C2: ValidateFlagGroups returns a mutually-exclusive error exactly when a
\* mutually-exclusive group with all members present has two or more changed
\* members, and the error names the changed members in lexical order (taken
\* where no required-together or one-required group fails first).
C2_MutuallyExclusive ==
  (ValidatedParsing /\ BrokenTogether(validated) = {}
     /\ BrokenOneRequired(validated) = {}) =>
    /\ (verr.kind = "exclusive") <=> (BrokenExclusive(validated) # {})
    /\ verr.kind = "exclusive" =>
         /\ verr.group \in BrokenExclusive(validated)
         /\ verr.flags = SortStrings(ChangedOf(verr.group))

\* C3: ValidateFlagGroups returns a one-required error exactly when a
\* one-required group with all members present has no changed member, and the
\* error names the whole group (taken where no required-together group fails
\* first).
C3_OneRequired ==
  (ValidatedParsing /\ BrokenTogether(validated) = {}) =>
    /\ (verr.kind = "oneRequired") <=> (BrokenOneRequired(validated) # {})
    /\ verr.kind = "oneRequired" => verr.group \in BrokenOneRequired(validated)

\* C4: a group that names a flag absent from the flag view never makes the
\* validation fail, and a group is validated as soon as all its members are
\* present: a broken group with all members present makes the call fail.
C4_AbsentMemberSkipped ==
  ValidatedParsing =>
    /\ verr # NoErr => Members(verr.group) \subseteq Flags(validated)
    /\ (BrokenTogether(validated) \cup BrokenOneRequired(validated)
          \cup BrokenExclusive(validated)) # {} => verr # NoErr

\* ---------------------------------------------------- resolver: C5 .. C10
FindDone == pc = "done" /\ res.op = "Find"
TraverseDone == pc = "done" /\ res.op = "Traverse"

Children(c) == Range(commands[c])

\* the children of c whose name or alias equals the token
ExactChildren(c, t) ==
  {k \in Children(c) : Name(k) = t \/ t \in Range(Aliases(k))}

\* the children of c with a name or alias that starts with the token
PrefixChildren(c, t) ==
  {k \in Children(c) :
     HasPrefix(Name(k), t) \/ \E al \in Range(Aliases(k)) : HasPrefix(al, t)}

\* the position of child k among the children of c
PositionOf(c, k) == CHOOSE i \in 1..Len(commands[c]) : commands[c][i] = k

\* the levels of the last Find that had a candidate token
CandidateLevels == {i \in DOMAIN res.levels : Len(res.levels[i].stripped) > 0}

\* C5: at every node Find selects a child whose name or alias equals the
\* candidate token whenever there is one, whatever its position and however
\* many siblings have the token as a prefix; a child is chosen by prefix only
\* when no child matches exactly.
C5_ExactMatchFirst ==
  FindDone =>
    \A i \in CandidateLevels :
      LET l == res.levels[i]
          exact == ExactChildren(l.node, l.stripped[1])
      IN /\ exact # {} => l.next \in exact
         /\ (l.next # Nil /\ l.next \notin exact) => exact = {}

\* an exact match in last position wins over two siblings that match by prefix
C5_Witness ==
  /\ FindDone
  /\ EnablePrefixMatching
  /\ \E i \in CandidateLevels :
       LET l == res.levels[i]
           t == l.stripped[1]
       IN /\ l.next \in ExactChildren(l.node, t)
          /\ Cardinality({k \in PrefixChildren(l.node, t) \ ExactChildren(l.node, t) :
                            PositionOf(l.node, k) < PositionOf(l.node, l.next)}) >= 2

\* C6: with prefix matching enabled and no exact match, Find descends into a
\* child exactly when one single child has a name or alias starting with the
\* candidate; with two or more such children it selects none and returns the
\* current node with its argument vector unchanged.
C6_UniquePrefix ==
  (FindDone /\ EnablePrefixMatching) =>
    \A i \in CandidateLevels :
      LET l == res.levels[i]
          t == l.stripped[1]
          pre == PrefixChildren(l.node, t)
      IN ExactChildren(l.node, t) = {} =>
           /\ (l.next # Nil) <=> (Cardinality(pre) = 1)
           /\ l.next # Nil => l.next \in pre
           /\ Cardinality(pre) >= 2 =>
                (l.next = Nil /\ res.cmd = l.node /\ res.args = l.args)

\* children status and build, token stat: status is selected by prefix
C6_Witness ==
  /\ FindDone
  /\ EnablePrefixMatching
  /\ commands["root"] = <<"status", "build">>
  /\ argv = <<tStat>>
  /\ res.cmd = "status"
  /\ res.args = <<>>

\* the tokens of a that are neither flags nor the value of a flag that takes
\* one, up to "--"; empty tokens are no arguments
RECURSIVE NonFlagArgs(_, _)
NonFlagArgs(a, flags) ==
  IF a = <<>> \/ Head(a) = tDashDash THEN <<>>
  ELSE IF flagTakesNext(Head(a), flags)
  THEN IF Len(a) <= 2 THEN <<>> ELSE NonFlagArgs(Tail(Tail(a)), flags)
  ELSE IF Head(a) # <<>> /\ ~HasPrefix(Head(a), <<"-">>)
  THEN <<Head(a)>> \o NonFlagArgs(Tail(a), flags)
  ELSE NonFlagArgs(Tail(a), flags)

\* a with the element at position i removed
RemoveAt(a, i) == SubSeq(a, 1, i - 1) \o SubSeq(a, i + 1, Len(a))

\* C7: the arguments Find returns are the input with exactly one token, the
\* matched command token, removed per level descended, so their length is
\* the input length minus the depth of the resolved node.
C7_OneTokenPerLevel ==
  FindDone =>
    /\ Len(res.args) = Len(argv) - (Len(res.levels) - 1)
    /\ \A i \in 1..(Len(res.levels) - 1) :
         \E j \in 1..Len(res.levels[i].args) :
           /\ res.levels[i].args[j] = res.levels[i].stripped[1]
           /\ res.levels[i + 1].args = RemoveAt(res.levels[i].args, j)

\* C8: Find returns an unknown-command error naming the first leftover
\* non-flag argument exactly when the resolved node is the root, has
\* subcommands and a non-flag argument is left over.
C8_UnknownCommand ==
  FindDone =>
    LET left == NonFlagArgs(res.args, Flags(res.cmd))
    IN /\ (res.err # NoError) <=>
            (~HasParent(res.cmd) /\ HasSubCommands(res.cmd) /\ left # <<>>)
       /\ res.err # NoError =>
            (res.err.kind = "unknown command" /\ res.err.arg = left[1])

\* C9: at each node the candidate child name is the first token that is
\* neither a flag token nor a flag's value; no token starting with '-' and
\* no token after "--" is a candidate.
C9_Candidate ==
  FindDone =>
    \A i \in DOMAIN res.levels :
      LET l == res.levels[i]
          nf == NonFlagArgs(l.args, Flags(l.node))
      IN /\ (Len(l.stripped) = 0) <=> (nf = <<>>)
         /\ Len(l.stripped) > 0 =>
              (l.stripped[1] = nf[1] /\ ~HasPrefix(l.stripped[1], <<"-">>))

\* the first token of a, from position i, that is looked up as a child: it
\* does not start with '-' and is not the one token that the value-taking
\* flag before it consumes (0 when there is none); inValue tells that the
\* token at i stands in the place of a flag's value
RECURSIVE FirstLookup(_, _, _, _)
FirstLookup(a, i, inValue, flags) ==
  IF i > Len(a) THEN 0
  ELSE IF flagTakesNext(a[i], flags) THEN FirstLookup(a, i + 1, TRUE, flags)
  ELSE IF inValue \/ HasPrefix(a[i], <<"-">>) THEN FirstLookup(a, i + 1, FALSE, flags)
  ELSE i

\* C10: Traverse buffers a value-taking flag with exactly the one following
\* token and leaves flag mode; the first later token not starting with '-'
\* is looked up as a child of the current node, and when it is found the
\* flags buffered so far are parsed on the current node and the traversal
\* goes on in the child.
C10_TraverseValueFlag ==
  TraverseDone =>
    LET i == FirstLookup(argv, 1, FALSE, Flags("root"))
    IN i > 0 =>
         /\ Len(res.lookups) >= 1
         /\ res.lookups[1].node = "root"
         /\ res.lookups[1].arg = argv[i]
         /\ res.lookups[1].next # Nil =>
              /\ Len(res.parsed) >= 1
              /\ res.parsed[1] = [node |-> "root", flags |-> SubSeq(argv, 1, i - 1)]
              /\ res.err = NoError => res.cmd \notin {"root", Nil}

\* ----------------------------------------------------------- execution: C11
ExecDone == pc = "done" /\ res.op = "ExecuteC"

\* the node on which Traverse's ParseFlags failed
FailedNode == res.parsed[Len(res.parsed)].node

\* C11: when Traverse meets a flag the current node does not recognise, the
\* flag error reaches the caller through the FlagErrorFunc of that node: the
\* function is called with the node and the error and the caller gets what
\* it returns; the child is not resolved.
C11_TraverseFlagErrorHook ==
  (ExecDone /\ TraverseChildren /\ res.resolveErr # NoError) =>
    LET owner == FlagErrorFuncOf(FailedNode)
    IN /\ res.resolved = Nil
       /\ owner # "default" =>
            \E i \in DOMAIN res.hooks :
              res.hooks[i] = [owner |-> owner, cmd |-> FailedNode, err |-> res.resolveErr]
       /\ res.err = applyFlagErrorFunc(owner, res.resolveErr)

\* --------------------------------------------------------- suggestions: C12
SugDone == pc = "done" /\ res.op = "findSuggestion"

\* the edit distance of s and t, by cases on their first characters
RECURSIVE EditDistance(_, _)
EditDistance(s, t) ==
  IF s = <<>> THEN Len(t)
  ELSE IF t = <<>> THEN Len(s)
  ELSE IF Head(s) = Head(t) THEN EditDistance(Tail(s), Tail(t))
  ELSE 1 + Min(EditDistance(Tail(s), t),
               Min(EditDistance(s, Tail(t)), EditDistance(Tail(s), Tail(t))))

\* a child the suggestions may name: not hidden, not deprecated, not the
\* help command, and runnable or with such a child of its own
RECURSIVE Available(_)
Available(k) ==
  /\ k \notin Hidden
  /\ k \notin Deprecated
  /\ k # helpCommand
  /\ k \in Runnable \/ \E j \in Children(k) : Available(j)

\* the minimum distance in force for the configured value d
EffectiveMinimum(d) == IF d <= 0 THEN 2 ELSE d

Occurrences(cs, x) == Cardinality({i \in DOMAIN cs : cs[i] = x})

\* C13: after any sequence of AddCommand and RemoveCommand calls a command
\* is in the children list of p exactly when its parent reference is p, and
\* it occurs in at most one children list and at most once; so AddCommand
\* does not add a child that has an owner already.
C13_LinksAgree ==
  ~crashed =>
    \A x \in Cmds :
      /\ \A p \in Cmds : (x \in Range(commands[p])) <=> (parent[x] = p)
      /\ \A p \in Cmds : Occurrences(commands[p], x) <= 1
      /\ Cardinality({p \in Cmds : x \in Range(commands[p])}) <= 1

NoSelfChild == \A c \in Cmds : c \notin Range(commands[c])

\* C14: AddCommand panics when a command is passed as its own child (unless
\* an earlier argument of the same call has ended the process), and in no
\* reachable state a command is a member of its own children list.
C14_SelfChildPanics ==
  /\ []NoSelfChild
  /\ [][\A c \in TreeCmds, cmds \in CmdLists :
          (c \in Range(cmds) /\ res'.op = "AddCommand" /\ AddCommand(c, cmds)) =>
            \/ res'.outcome = "panic"
            \/ res'.outcome = "overflow" /\ cmds[1] # c]_vars

\* an AddCommand of a command to itself has panicked
C14_Witness ==
  /\ res.op = "AddCommand"
  /\ res.outcome = "panic"
  /\ NoSelfChild

\* ------------------------------------------------------------ registry: C15
\* the goroutines whose registration of flag f has returned r
Registered(f, r) ==
  {g \in Goroutines : /\ goroutines[g].op = "register"
                      /\ goroutines[g].flag = f
                      /\ goroutines[g].result.err = r}

\* C15: in every interleaving at most one registration per flag succeeds:
\* the first stores its function, every other registration of the flag
\* returns an error and leaves the stored function as it is, and a lookup
\* that reads after a registration has succeeded returns that function.
C15_RegisterOnce ==
  /\ [](\A f \in TreeFlagNames :
          /\ Cardinality(Registered(f, "ok")) <= 1
          /\ \A g \in Registered(f, "ok") : flagCompletionFunctions[f] = g
          /\ \A g \in Registered(f, "already registered") :
               flagCompletionFunctions[f] \notin {None, g}
          /\ \A g \in Goroutines :
               (goroutines[g].op = "get" /\ goroutines[g].flag = f
                  /\ goroutines[g].result.exists)
                 => goroutines[g].result.hook = flagCompletionFunctions[f])
  /\ [][\A f \in TreeFlagNames :
          /\ flagCompletionFunctions[f] # None =>
               flagCompletionFunctions'[f] = flagCompletionFunctions[f]
          /\ \A g \in Goroutines :
               (goroutines[g].pc = "read" /\ goroutines'[g].pc = "unlock"
                  /\ goroutines[g].flag = f /\ flagCompletionFunctions[f] # None)
                 => goroutines'[g].result =
                      Returned("ok", flagCompletionFunctions[f], TRUE)]_vars

\* two registrations of one flag have returned, one with an error, and a
\* lookup of the flag has returned the function of the other
C15_Witness ==
  \E f \in TreeFlagNames, g1, g2, g3 \in Goroutines :
    /\ g1 \in Registered(f, "ok")
    /\ g2 \in Registered(f, "already registered")
    /\ goroutines[g3] = [pc |-> "done", op |-> "get", flag |-> f,
                         result |-> Returned("ok", g1, TRUE)]

\* ---------------------------------------------------------- directives: C17
\* the six directives the claim names, with the values the program gives them
DirectiveValue ==
  [ShellCompDirectiveError |-> ShellCompDirectiveError,
   ShellCompDirectiveNoSpace |-> ShellCompDirectiveNoSpace,
   ShellCompDirectiveNoFileComp |-> ShellCompDirectiveNoFileComp,
   ShellCompDirectiveFilterFileExt |-> ShellCompDirectiveFilterFileExt,
   ShellCompDirectiveFilterDirs |-> ShellCompDirectiveFilterDirs,
   ShellCompDirectiveKeepOrder |-> ShellCompDirectiveKeepOrder]

DirectiveNames == DOMAIN DirectiveValue

SingleBit(v) == \E k \in 0..7 : v = 2^k

\* the integer that has bit k set when a or b has it
RECURSIVE BitOr(_, _)
BitOr(a, b) ==
  IF a = 0 THEN b
  ELSE IF b = 0 THEN a
  ELSE (IF a % 2 = 1 \/ b % 2 = 1 THEN 1 ELSE 0) + 2 * BitOr(a \div 2, b \div 2)

\* the directive that combines the flags of S
RECURSIVE Encode(_)
Encode(S) ==
  IF S = {} THEN 0
  ELSE LET n == CHOOSE x \in S : TRUE
       IN BitOr(DirectiveValue[n], Encode(S \ {n}))

\* the names a string form holds between its separators
NamesIn(str) == {str.names[i] : i \in {j \in DOMAIN str.names : j % 2 = 1}}

\* C17: the six directives are pairwise distinct single bits and Default
\* is 0; every subset of them has its own integer below
\* shellCompDirectiveMaxValue; and the string form of a subset's integer
\* names exactly the flags of the subset (Default for the empty one).
C17_DirectiveBits ==
  /\ ShellCompDirectiveDefault = 0
  /\ \A n \in DirectiveNames : SingleBit(DirectiveValue[n])
  /\ \A n1, n2 \in DirectiveNames : n1 # n2 => DirectiveValue[n1] # DirectiveValue[n2]
  /\ \A S \in SUBSET DirectiveNames : Encode(S) < shellCompDirectiveMaxValue
  /\ \A S1, S2 \in SUBSET DirectiveNames : S1 # S2 => Encode(S1) # Encode(S2)
  /\ directiveString # NoString =>
       \A S \in SUBSET DirectiveNames :
         directive = Encode(S) =>
           /\ ~directiveString.unexpected
           /\ NamesIn(directiveString) =
                IF S = {} THEN {"ShellCompDirectiveDefault"} ELSE S

\* ------------------------------------------------- the __complete command: C16
\* ExecuteC has returned from a request that resolved to the completion
\* command with at least one token of the line
CompleteRequested ==
  /\ pc = "done"
  /\ res.op = "complete"
  /\ res.resolved = completeCmd
  /\ Len(res.args) >= 1

IsDigits(s) ==
  /\ s # <<>>
  /\ \A i \in DOMAIN s : s[i] \in {"0", "1", "2", "3", "4", "5", "6", "7", "8", "9"}

DirectiveLine(l) == l # <<>> /\ l[1] = ":" /\ IsDigits(Tail(l))

\* C16: a request to the __complete command leaves on standard output
\* candidate lines, none holding a line break, and then one last line
\* ':<directive integer>'; when the resolution or the flag parsing of the
\* completion failed there is no candidate line and a diagnostic was written.
C16_CompleteOutput ==
  CompleteRequested =>
    /\ stdout # <<>>
    /\ DirectiveLine(stdout[Len(stdout)])
    /\ \A i \in 1..(Len(stdout) - 1) : ~Contains(stdout[i], "\n")
    /\ res.compErr # NoError =>
         /\ Len(stdout) = 1
         /\ \E i \in DOMAIN stderr : stderr[i] = res.compErr.kind

\* --------------------------------- flag groups at completion time: C18, C19
\* the pass has run on a command that parses its flags
EnforcedParsing == enforced # "none" /\ ~DisableFlagParsing[enforced]

TogetherGroups == PresentGroups(enforced, requiredAsGroupAnnotation)
OneRequiredGroups == PresentGroups(enforced, oneRequiredAnnotation)
ExclusiveGroups == PresentGroups(enforced, mutuallyExclusiveAnnotation)

\* C18, as claimed: the pass does not fail; every required-together or
\* one-required group with all members present and a member set has its
\* other members marked required; and a flag is marked required only through
\* such a group, so that a group with no member set marks nothing.
C18_RequiredWhenSet ==
  EnforcedParsing =>
    /\ ~panicked
    /\ \A g \in TogetherGroups \cup OneRequiredGroups :
         ChangedOf(g) # {} => UnchangedOf(g) \subseteq required
    /\ \A f \in required :
         \E g \in TogetherGroups \cup OneRequiredGroups :
           f \in Members(g) /\ ChangedOf(g) # {}

\* C18, amended: the pass does not fail; the flags marked required are the
\* members of the required-together groups (all members present) with a
\* member set and the members of the one-required groups (all members
\* present) with no member set; a required-together group with no member
\* set and a one-required group with a member set mark nothing.
C18_RequiredMarks ==
  EnforcedParsing =>
    /\ ~panicked
    /\ \A g \in TogetherGroups : ChangedOf(g) # {} => Members(g) \subseteq required
    /\ \A g \in OneRequiredGroups : ChangedOf(g) = {} => Members(g) \subseteq required
    /\ \A f \in required :
         \/ \E g \in TogetherGroups : f \in Members(g) /\ ChangedOf(g) # {}
         \/ \E g \in OneRequiredGroups : f \in Members(g) /\ ChangedOf(g) = {}

\* the pass ran where a required-together group has a member set and an
\* unset one, a one-required group has a member set, and a flag is left
\* unmarked
C18_Witness ==
  /\ EnforcedParsing
  /\ \E g \in TogetherGroups : ChangedOf(g) # {} /\ UnchangedOf(g) # {}
  /\ \E g \in OneRequiredGroups : ChangedOf(g) # {}
  /\ required # Flags(enforced)

C20_ViewsIdempotent ==
  /\ ~flagPanic
  /\ \A c \in ViewCmds :
       /\ viewCalls[c].local.calls = 2 => lflags[c] = viewCalls[c].local.first
       /\ viewCalls[c].inherited.calls = 2 => iflags[c] = viewCalls[c].inherited.first

\* root and status both declare the persistent flag verbose; the local view
\* of status, computed twice, holds status's flag, and so does the inherited
\* view of sub, computed twice
C20_Witness ==
  /\ viewCalls["status"].local.calls = 2
  /\ viewCalls["sub"].inherited.calls = 2
  /\ FlagObject("verbose", "root", TRUE) \in pflags["root"]
  /\ lflags["status"] = {FlagObject("verbose", "status", TRUE)}
  /\ iflags["sub"] = {FlagObject("verbose", "status", TRUE)}

\* ------------------------------------------------------------ flag views: C21
\* both views of c were computed since the last flag was registered on c or
\* on a parent of c
ViewsComputed(c) == viewCalls[c].inherited.calls >= 1

\* a is a parent of c, near or far
IsAncestor(a, c) == a # c /\ IsAncestorOrSelf(a, c, Cardinality(ViewCmds))

Executed(c) == pc = "done" /\ resolvedCmd = c

HelpRequested == tHelp \in Changed

VersionRequested == Version # "" /\ tVersion \in Changed

\* the error the validation of the flags of c gives: the required flags
\* first, the flag groups next
FlagsError(c) ==
  IF ValidateRequiredFlags(c) # NilErr THEN ValidateRequiredFlags(c)
  ELSE flagGroupsErr(ValidateFlagGroups(c))

\* the i-th hook invoked returned an error
Failed(i) ==
  invoked[i].form = "E" /\ <<invoked[i].cmd, invoked[i].stage>> \in failing

NoHookFailed == \A i \in DOMAIN invoked : ~Failed(i)

StagesInvoked == {invoked[i].stage : i \in DOMAIN invoked}

\* C22: when a runnable command is executed with no help or version
\* requested, valid arguments and no failing hook before, and the validation
\* of its required flags or of its flag groups gives an error, then that
\* error is what is returned and neither Run nor a post-run hook is invoked.
C22_ValidationBeforeRun ==
  \A c \in GroupCmds :
    (/\ Executed(c)
     /\ IsRunnable(c)
     /\ ~HelpRequested
     /\ ~VersionRequested
     /\ ValidateArgs(argv) = NilErr
     /\ NoHookFailed
     /\ FlagsError(c) # NilErr)
    => /\ execErr = FlagsError(c)
       /\ StagesInvoked \cap {"Run", "PostRun", "PersistentPostRun"} = {}

\* C23: when the help flag of the executed command is set, or the command
\* is not runnable, and no version is requested, the help function is
\* called, nothing is written to standard error, no hook is invoked and the
\* error returned is nil; when the help flag is not set and the command is
\* runnable with valid arguments and flags and no failing hook before, Run
\* is invoked.
C23_HelpOrRun ==
  \A c \in GroupCmds :
    (Executed(c) /\ ~VersionRequested) =>
      /\ (HelpRequested \/ ~IsRunnable(c))
           => /\ helpShown
              /\ stderr = <<>>
              /\ invoked = <<>>
              /\ execErr = NilErr
      /\ (/\ ~HelpRequested
          /\ IsRunnable(c)
          /\ ValidateArgs(argv) = NilErr
          /\ FlagsError(c) = NilErr
          /\ NoHookFailed)
           => \E i \in DOMAIN invoked : invoked[i].cmd = c /\ invoked[i].stage = "Run"

\* the place of a stage in the documented order
StageIndex(stage) == CHOOSE i \in DOMAIN HookStages : HookStages[i] = stage

\* some command from c upwards has a hook of the stage
HasHookAbove(c, stage) ==
  \E i \in DOMAIN parentsFrom(c) :
    hooks[parentsFrom(c)[i]][stage].e \/ hooks[parentsFrom(c)[i]][stage].plain

\* C28: for an executed runnable command with valid arguments and flags and
\* no help or version requested, the hooks invoked follow the order
\* PersistentPreRun, PreRun, Run, PostRun, PersistentPostRun; every hook
\* invoked is set, in its E form when that is set and in its plain form
\* otherwise; a hook that returns an error is the last one invoked and its
\* error is returned; when no hook fails, every stage that has a hook is
\* invoked and Run is; a command that is not runnable invokes no hook.
C28_HookOrder ==
  \A c \in GroupCmds :
    Executed(c) =>
      /\ ~IsRunnable(c) => invoked = <<>>
      /\ (/\ IsRunnable(c)
          /\ ~HelpRequested
          /\ ~VersionRequested
          /\ ValidateArgs(argv) = NilErr
          /\ FlagsError(c) = NilErr)
           => /\ \A i, j \in DOMAIN invoked :
                   i < j => StageIndex(invoked[i].stage) <= StageIndex(invoked[j].stage)
              /\ \A i \in DOMAIN invoked :
                   /\ invoked[i].form = "E" <=> hooks[invoked[i].cmd][invoked[i].stage].e
                   /\ invoked[i].form = "plain" => hooks[invoked[i].cmd][invoked[i].stage].plain
                   /\ Failed(i) => i = Len(invoked)
                                  /\ execErr = HookErr(invoked[i].cmd, invoked[i].stage)
              /\ NoHookFailed =>
                   /\ execErr = NilErr
                   /\ "Run" \in StagesInvoked
                   /\ \A st \in {"PreRun", "PostRun"} :
                        (hooks[c][st].e \/ hooks[c][st].plain) => st \in StagesInvoked
                   /\ \A st \in {"PersistentPreRun", "PersistentPostRun"} :
                        HasHookAbove(c, st) => st \in StagesInvoked

\* ------------------------------------------------ positional arguments: C27
\* the number of arguments breaks the bound the validator v is named for
BreaksBound(v, n) ==
  CASE v.kind = "MinimumNArgs" -> n < v.min
    [] v.kind = "MaximumNArgs" -> n > v.max
    [] v.kind = "ExactArgs" -> n # v.min
    [] v.kind = "RangeArgs" -> n < v.min \/ n > v.max

\* C27: a validator called with the arguments returns an error exactly
\* when their number breaks its bound: fewer than n for MinimumNArgs(n),
\* more than n for MaximumNArgs(n), other than n for ExactArgs(n), below min
\* or above max for RangeArgs(min, max); otherwise it returns nil.
C27_ArgsBounds ==
  (pc = "done" /\ Args # NoValidator) =>
    (execErr # NilErr <=> BreaksBound(Args, Len(argv)))

\* ------------------------------------------------- flag groups: C24, C25
\* the step is the call Mark*(names) on c for the annotation k
MarkCalled(c, k, names) ==
  /\ ~panicked
  /\ nmarks' = nmarks + 1
  /\ Annotations' = markLoop(Flags(c), k, names, Join(names), Annotations).ann
  /\ panicked' = markLoop(Flags(c), k, names, Join(names), Annotations).panic

\* the annotations with the signature of names appended to the list k of
\* every flag named, and every other list as it was
SignatureAppended(k, names) ==
  [a \in GroupAnnotations |->
     [n \in FlagNames |->
        IF a = k /\ n \in Range(names) THEN Append(Annotations[a][n], Join(names))
        ELSE Annotations[a][n]]]

\* C24: a call of MarkFlagsRequiredTogether, MarkFlagsOneRequired or
\* MarkFlagsMutuallyExclusive panics when a flag it names is absent from the
\* flag view of the command; when all are present it does not panic and
\* appends the space-joined signature of the names to the annotation list of
\* every flag named, after the signatures already there, and changes no
\* other list.
C24_MarkFlags ==
  [][\A c \in GroupCmds, k \in GroupAnnotations, names \in MarkArgs :
       MarkCalled(c, k, names) =>
         /\ ~(Range(names) \subseteq Flags(c)) => panicked'
         /\ Range(names) \subseteq Flags(c) =>
              /\ ~panicked'
              /\ Annotations' = SignatureAppended(k, names)]_vars

\* two groups were declared without a panic and a flag carries the
\* signatures of both in one annotation list
C24_Witness ==
  /\ nmarks = 2
  /\ ~panicked
  /\ \E k \in GroupAnnotations :
       /\ Len(Annotations[k][<<"b">>]) = 2
       /\ Annotations[k][<<"b">>][1] # Annotations[k][<<"b">>][2]

\* the signature with its members in the opposite order
Reversed(group) == Join(Reverse(Split(group)))

\* the annotations had the group g been declared with its members in the
\* opposite order
Redeclared(g) ==
  [k \in GroupAnnotations |->
     [n \in FlagNames |->
        [i \in DOMAIN Annotations[k][n] |->
           IF Annotations[k][n][i] = g THEN Reversed(g) ELSE Annotations[k][n][i]]]]

AllDeclared ==
  UNION {Range(Annotations[k][n]) : k \in GroupAnnotations, n \in FlagNames}

\* the flags an error names
FlagsNamed(e) == IF e.kind = "oneRequired" THEN Members(e.group) ELSE Range(e.flags)

\* C25: in every state, for every command and every group declared,
\* ValidateFlagGroups gives an error of the same kind, naming the same set of
\* flags, or no error, as it does when that group is declared with its
\* members in the opposite order.
C25_OrderIndependent ==
  ~panicked =>
    \A c \in GroupCmds, g \in AllDeclared :
      /\ validateFlagGroupsOf(Redeclared(g), c).kind = ValidateFlagGroups(c).kind
      /\ FlagsNamed(validateFlagGroupsOf(Redeclared(g), c)) = FlagsNamed(ValidateFlagGroups(c))

\* the annotation an error kind comes from
AnnotationOf(kind) ==
  IF kind = "required" THEN requiredAsGroupAnnotation
  ELSE IF kind = "oneRequired" THEN oneRequiredAnnotation
  ELSE mutuallyExclusiveAnnotation

\* the groups of one annotation whose status makes the validation of c fail
FailingGroups(c, annotation) ==
  LET data == visitAll(Flags(c), ValidateVisited(c), annotation, EmptyStatus)
  IN {h \in DOMAIN data :
        IF annotation = requiredAsGroupAnnotation
        THEN unsetOf(data[h]) # {} /\ unsetOf(data[h]) # DOMAIN data[h]
        ELSE IF annotation = oneRequiredAnnotation
        THEN setOf(data[h]) = {}
        ELSE Cardinality(setOf(data[h])) > 1}

\* C25 (amended): in every state, for every command and every group
\* declared, ValidateFlagGroups gives an error of the same kind, or no error,
\* as it does when that group is declared with its members in the opposite
\* order; the two errors name the same set of flags when no second group of
\* the error's kind fails too.
C25_OrderIndependentAlone ==
  ~panicked =>
    \A c \in GroupCmds, g \in AllDeclared :
      LET e == ValidateFlagGroups(c)
          r == validateFlagGroupsOf(Redeclared(g), c)
      IN /\ r.kind = e.kind
         /\ (e.kind # "nil" /\ Cardinality(FailingGroups(c, AnnotationOf(e.kind))) = 1)
              => FlagsNamed(r) = FlagsNamed(e)

\* a group of two flags, declared required together, is validated with one
\* of its flags set and the other not
C25_Witness ==
  /\ validated = "child"
  /\ verr.kind = "required"
  /\ Len(Split(verr.group)) >= 2
  /\ Reversed(verr.group) # verr.group
  /\ FailingGroups("child", requiredAsGroupAnnotation) = {verr.group}

\* the entries of a list that carry the active-help marker
Marked(list) == {i \in 1..Len(list) : HasPrefix(list[i], activeHelpMarker)}

\* Run of the completion command has printed the candidates
Completed == pc = "done" /\ res.op = "complete" /\ res.ran /\ ~crashed

Without(cs, gone) == SelectSeq(cs, LAMBDA x : x \notin gone)

\* C29: every RemoveCommand(c, cmds) that returns leaves as the children of
\* c the children it had, in their order, without those listed in cmds,
\* leaves every other children list as it was, clears the parent reference
\* of the children removed and leaves every other parent reference as it
\* was; with cmds empty nothing changes.
C29_RemoveExactly ==
  [][\A c \in TreeCmds, cmds \in CmdLists :
       (RemoveCommand(c, cmds) /\ ~crashed') =>
         /\ commands' = [commands EXCEPT ![c] = Without(@, Range(cmds))]
         /\ parent' = [x \in Cmds |->
                         IF x \in Range(commands[c]) \cap Range(cmds)
                         THEN Nil ELSE parent[x]]
         /\ cmds = <<>> => (commands' = commands /\ parent' = parent)]_vars

\* Root() and CommandPath() return for every command: no command is its
\* own ancestor
WalksTerminate ==
  \A c \in Cmds : Root(c) # Nil /\ CommandPathLen(parent, c) >= 0

\* C30: a call of AddCommand or RemoveCommand that does not panic, made
\* when the walks up the parents terminate for every command, leaves them
\* terminating for every command.
C30_NoCycle ==
  [][(WalksTerminate /\ res'.outcome # "panic") => WalksTerminate']_vars

====
